---- MODULE Spec2Model ----
(***************************************************************************)
(* Model of the two command-line tools of SD_Sync:                         *)
(*   src/firmware_downloader.py  (catalog resolver, asset fetcher, GitHub  *)
(*                                release matcher, firmware batch)         *)
(*   src/sync_repos.py           (repository sync, file mirror, batch)     *)
(*                                                                         *)
(* Python strings are sequences of one-character strings, so that          *)
(* substring tests, lower-casing, splitting and stripping are computed     *)
(* as the code computes them.                                              *)
(***************************************************************************)
EXTENDS Integers, Sequences, FiniteSets, TLC

(***************************************************************************)
(* Bounds of the model.                                                    *)
(***************************************************************************)
MaxVersions == 2
MaxLen == 2
MaxSegs == 4

(***************************************************************************)
(* Python string primitives.                                               *)
(***************************************************************************)
\* needle in hay
IsSubstr(needle, hay) ==
    \E i \in 0..(Len(hay) - Len(needle)) : SubSeq(hay, i + 1, i + Len(needle)) = needle

\* str.lower() of one character of the alphabets used here
LowerChar(c) ==
    CASE c = "A" -> "a" [] c = "B" -> "b" [] c = "C" -> "c" [] c = "D" -> "d"
      [] c = "E" -> "e" [] c = "R" -> "r" [] c = "S" -> "s" [] c = "T" -> "t"
      [] c = "V" -> "v" [] c = "X" -> "x"
      [] OTHER -> c

\* str.lower()
Lower(s) == [i \in 1..Len(s) |-> LowerChar(s[i])]

\* str.replace(old, new) for a one-character old and a new of length 0 or 1
RECURSIVE Replace(_, _, _)
Replace(s, old, new) ==
    IF s = <<>> THEN <<>>
    ELSE (IF Head(s) = old THEN new ELSE <<Head(s)>>) \o Replace(Tail(s), old, new)

\* re.sub(r'[^...]', '', s): keep the characters of the class
KeepOnly(s, class) == SelectSeq(s, LAMBDA c : c \in class)

\* str.rstrip(ch)
RECURSIVE RStrip(_, _)
RStrip(s, ch) ==
    IF s # <<>> /\ s[Len(s)] = ch THEN RStrip(SubSeq(s, 1, Len(s) - 1), ch) ELSE s

\* str.split(ch): always at least one part
RECURSIVE Split(_, _)
Split(s, ch) ==
    LET cut == {i \in 1..Len(s) : s[i] = ch}
    IN  IF cut = {} THEN <<s>>
        ELSE LET i == CHOOSE k \in cut : \A j \in cut : k <= j
             IN  <<SubSeq(s, 1, i - 1)>> \o Split(SubSeq(s, i + 1, Len(s)), ch)

\* a scan that stops at the first hit: the first position of hits holding TRUE, 0 when
\* there is none
FirstMatch(hits) ==
    LET S == {i \in 1..Len(hits) : hits[i]}
    IN  IF S = {} THEN 0 ELSE CHOOSE i \in S : \A j \in S : i <= j

\* all sequences over S of length at most n
SeqsUpTo(S, n) == UNION {[1..k -> S] : k \in 0..n}

(***************************************************************************)
(* String literals of the code.                                            *)
(***************************************************************************)
S_latest == <<"l", "a", "t", "e", "s", "t">>
S_stable == <<"s", "t", "a", "b", "l", "e">>
S_all == <<"a", "l", "l">>
S_beta == <<"b", "e", "t", "a">>
S_alpha == <<"a", "l", "p", "h", "a">>
S_rc == <<"r", "c">>
S_dev == <<"d", "e", "v">>
S_bin == <<".", "b", "i", "n">>

S_github_com == <<"g", "i", "t", "h", "u", "b", ".", "c", "o", "m">>
S_api_repos == <<"h", "t", "t", "p", "s", ":", "/", "/", "a", "p", "i", ".", "g", "i", "t", "h", "u", "b", ".", "c", "o", "m", "/", "r", "e", "p", "o", "s", "/">>
S_releases_latest == <<"/", "r", "e", "l", "e", "a", "s", "e", "s", "/", "l", "a", "t", "e", "s", "t">>

\* python's None, and the shapes resolve_version returns
None == [kind |-> "none"]
One(v) == [kind |-> "one", v |-> v]
Str(s) == [kind |-> "str", s |-> s]
List(vs) == [kind |-> "list", vs |-> vs]

(***************************************************************************)
(* FirmwareDownloader.resolve_version                                      *)
(***************************************************************************)
\* mutant: the test without its 'stable' alternative
IsStableVersion_MarkersOnly(version) ==
    ~ \E x \in {S_beta, S_alpha, S_rc, S_dev} : IsSubstr(x, Lower(version.version))

\* the test of line 111 on one version record
IsStableVersion(version) ==
    LET version_str == Lower(version.version)
    IN  \/ IsSubstr(S_stable, version_str)
        \/ ~ \E x \in {S_beta, S_alpha, S_rc, S_dev} : IsSubstr(x, version_str)

\* mutant: a specific selector has to equal the label, and an empty list is returned as it is
resolve_version_Exact(firmware, requested_version) ==
    LET versions == firmware.versions
    IN  IF requested_version = S_all THEN List(versions)
        ELSE IF versions = <<>> THEN None
        ELSE IF requested_version = S_latest THEN One(versions[1])
        ELSE IF requested_version = S_stable THEN
            LET i == FirstMatch([k \in 1..Len(versions) |-> IsStableVersion(versions[k])])
            IN  IF i # 0 THEN One(versions[i]) ELSE One(versions[1])
        ELSE
            LET i == FirstMatch([k \in 1..Len(versions) |-> requested_version = versions[k].version])
            IN  IF i # 0 THEN One(versions[i]) ELSE None

resolve_version(firmware, requested_version) ==
    LET versions == firmware.versions
    IN  IF versions = <<>> THEN None
        ELSE IF requested_version = S_latest THEN One(versions[1])
        ELSE IF requested_version = S_stable THEN
            LET i == FirstMatch([k \in 1..Len(versions) |-> IsStableVersion(versions[k])])
            IN  IF i # 0 THEN One(versions[i]) ELSE One(versions[1])
        ELSE IF requested_version = S_all THEN List(versions)
        ELSE
            LET i == FirstMatch([k \in 1..Len(versions) |->
                                    IsSubstr(requested_version, versions[k].version)])
            IN  IF i # 0 THEN One(versions[i]) ELSE None

(***************************************************************************)
(* FirmwareDownloader.clean_filename                                       *)
(***************************************************************************)
\* the characters python's \w matches, among the characters used here
WordChars ==
    {"a", "b", "c", "d", "e", "f", "g", "h", "i", "k", "l", "m", "n", "o", "p",
     "r", "s", "t", "u", "v", "x", "A", "B", "C", "D", "E", "R", "S", "T", "V",
     "X", "0", "1", "2", "_"}

\* line 126 (and line 133 for the device): spaces to underscores, then [^\w\-_] removed
clean_name(name) == KeepOnly(Replace(name, " ", <<"_">>), WordChars \cup {"-", "_"})

\* mutant: the version is not filtered by the character class
clean_version_Unfiltered(version) == Replace(Replace(version, "v", <<>>), "V", <<>>)

\* lines 129-130: every 'v' and 'V' removed, then [^\w\-_\.] removed
clean_version(version) ==
    KeepOnly(Replace(Replace(version, "v", <<>>), "V", <<>>), WordChars \cup {"-", "_", "."})

clean_filename(name, version, device) ==
    clean_name(device) \o <<"_">> \o clean_name(name) \o <<"_">> \o clean_version(version) \o S_bin

(***************************************************************************)
(* FirmwareDownloader.parse_github_releases_url                            *)
(***************************************************************************)
parse_github_releases_url(releases_url) ==
    IF ~ IsSubstr(S_github_com, releases_url) THEN None
    ELSE
        LET parts == Split(RStrip(releases_url, "/"), "/")
        IN  IF Len(parts) < 5 THEN None
            ELSE LET owner == parts[Len(parts) - 2]
                     repo == parts[Len(parts) - 1]
                 IN  Str(S_api_repos \o owner \o <<"/">> \o repo \o S_releases_latest)

(***************************************************************************)
(* The filesystem under output_base_dir: a function from the paths of the  *)
(* existing files, <<directory, file name>>, to their content.             *)
(***************************************************************************)
Exists(files, path) == path \in DOMAIN files
FileAt(files, path) == IF path \in DOMAIN files THEN files[path] ELSE "absent"
\* target_file.unlink()
Unlink(files, path) == [q \in DOMAIN files \ {path} |-> files[q]]
\* open(target_file, 'wb') truncates; writing the last chunk completes the file
WriteFile(files, path, content) ==
    [q \in DOMAIN files \cup {path} |-> IF q = path THEN content ELSE files[q]]

\* directories Path.mkdir(parents=True, exist_ok=True) cannot create: a regular file
\* is in the way, and mkdir raises FileExistsError
BlockedDirs == {"k2"}

\* how one requests.get(..., stream=True) / open / iter_content / write sequence ends:
\* the request raises, a chunk fails to arrive, a chunk cannot be written, or all is well
DownloadOutcomes == {"ok", "request_error", "stream_error", "write_error"}

\* what a handler did for one target: the download reference it was given, the file
\* before and after, how the attempt ended, the value reported for it, and whether the
\* download URL was requested
Attempt(target, source, before, outcome, files, reported, requested) ==
    [target |-> target, source |-> source, before |-> before, outcome |-> outcome,
     after |-> FileAt(files, target), reported |-> reported, requested |-> requested]

(***************************************************************************)
(* FirmwareDownloader.download_single_version                              *)
(***************************************************************************)
\* mutant: a failed transfer leaves what was written so far
stream_to_file_NoCleanup(files, target_file, outcome) ==
    IF outcome = "request_error" THEN [ok |-> FALSE, files |-> files]
    ELSE IF outcome \in {"stream_error", "write_error"}
         THEN [ok |-> FALSE, files |-> WriteFile(files, target_file, "partial")]
    ELSE [ok |-> TRUE, files |-> WriteFile(files, target_file, "complete")]

\* lines 166-197: request, open, stream the chunks; on any exception unlink the target
\* if it exists
stream_to_file(files, target_file, outcome) ==
    LET cleanup(fs) == IF Exists(fs, target_file) THEN Unlink(fs, target_file) ELSE fs
    IN  IF outcome = "request_error"
        THEN [ok |-> FALSE, files |-> cleanup(files)]
        ELSE LET opened == WriteFile(files, target_file, "partial")
             IN  IF outcome \in {"stream_error", "write_error"}
                 THEN [ok |-> FALSE, files |-> cleanup(opened)]
                 ELSE [ok |-> TRUE, files |-> WriteFile(opened, target_file, "complete")]

\* the target path of lines 149-155
target_path(firmware, version_data, device, device_key) ==
    <<device_key, clean_filename(firmware.name, version_data.version, device)>>

\* mutant: an existing target is downloaded again although overwrite is off
download_single_version_NoSkip(files, firmware, version_data, device, device_key, settings, outcome) ==
    LET target_file == target_path(firmware, version_data, device, device_key)
        before == FileAt(files, target_file)
        r == stream_to_file(files, target_file, outcome)
    IN  IF version_data.file = <<>>
        THEN [result |-> "false", files |-> files,
              attempts |-> <<Attempt(target_file, version_data.file, before, "no_file", files, FALSE, FALSE)>>]
        ELSE IF device_key \in BlockedDirs
        THEN [result |-> "raise", files |-> files, attempts |-> <<>>]
        ELSE [result |-> IF r.ok THEN "true" ELSE "false", files |-> r.files,
              attempts |-> <<Attempt(target_file, version_data.file, before, outcome,
                                     r.files, r.ok, TRUE)>>]

\* result "true" / "false" as returned, "raise" when mkdir (line 151) raises
download_single_version(files, firmware, version_data, device, device_key, settings, outcome) ==
    LET target_file == target_path(firmware, version_data, device, device_key)
        before == FileAt(files, target_file)
    IN  IF version_data.file = <<>>
        THEN [result |-> "false", files |-> files,
              attempts |-> <<Attempt(target_file, version_data.file, before, "no_file", files, FALSE, FALSE)>>]
        ELSE IF device_key \in BlockedDirs
        THEN [result |-> "raise", files |-> files, attempts |-> <<>>]
        ELSE IF Exists(files, target_file) /\ ~ settings.overwrite_existing
        THEN [result |-> "true", files |-> files,
              attempts |-> <<Attempt(target_file, version_data.file, before, "skipped", files, TRUE, FALSE)>>]
        ELSE LET r == stream_to_file(files, target_file, outcome)
             IN  [result |-> IF r.ok THEN "true" ELSE "false", files |-> r.files,
                  attempts |-> <<Attempt(target_file, version_data.file, before, outcome,
                                         r.files, r.ok, TRUE)>>]

(***************************************************************************)
(* FirmwareDownloader.find_firmware_by_name, download_firmware             *)
(***************************************************************************)
get_firmware_for_device(data, device) ==
    SelectSeq(data, LAMBDA firmware : Lower(firmware.category) = Lower(device))

\* mutant: only a request contained in the catalog name matches
find_firmware_by_name_OneWay(data, device, name) ==
    LET device_firmware == get_firmware_for_device(data, device)
        i == FirstMatch([k \in 1..Len(device_firmware) |->
                 IsSubstr(Lower(name), Lower(device_firmware[k].name))])
    IN  IF i # 0 THEN One(device_firmware[i]) ELSE None

find_firmware_by_name(data, device, name) ==
    LET device_firmware == get_firmware_for_device(data, device)
        i == FirstMatch([k \in 1..Len(device_firmware) |->
                 LET fw_name == Lower(device_firmware[k].name)
                 IN  IsSubstr(Lower(name), fw_name) \/ IsSubstr(fw_name, Lower(name))])
    IN  IF i # 0 THEN One(device_firmware[i]) ELSE None

\* lines 229-231: the versions one after the other; an exception ends the loop
RECURSIVE download_versions(_, _, _, _, _, _, _)
download_versions(files, firmware, version_data, device, device_key, settings, outcomes) ==
    IF version_data = <<>>
    THEN [result |-> "done", success_count |-> 0, files |-> files, attempts |-> <<>>]
    ELSE LET r == download_single_version(files, firmware, Head(version_data), device,
                                          device_key, settings, Head(outcomes))
         IN  IF r.result = "raise" THEN [result |-> "raise", success_count |-> 0,
                                         files |-> r.files, attempts |-> r.attempts]
             ELSE LET rest == download_versions(r.files, firmware, Tail(version_data), device,
                                                device_key, settings, Tail(outcomes))
                  IN  [result |-> rest.result,
                       success_count |-> rest.success_count + (IF r.result = "true" THEN 1 ELSE 0),
                       files |-> rest.files,
                       attempts |-> r.attempts \o rest.attempts]

\* mutant: a request that matches no catalog entry is served from the first entry
download_firmware_AnyEntry(files, data, firmware_config, settings, outcomes) ==
    LET found == find_firmware_by_name(data, firmware_config.device, firmware_config.name)
        firmware == IF found = None THEN data[1] ELSE found.v
        resolved == resolve_version(firmware, firmware_config.version)
        version_data == IF resolved = None THEN One(firmware.versions[1]) ELSE resolved
    IN  IF firmware.versions = <<>> THEN [result |-> "false", files |-> files, attempts |-> <<>>]
        ELSE IF firmware_config.version = S_all /\ version_data.kind = "list"
        THEN LET r == download_versions(files, firmware, version_data.vs,
                          firmware_config.device, firmware_config.device_key,
                          settings, outcomes)
             IN  [result |-> IF r.result = "raise" THEN "raise"
                             ELSE IF r.success_count > 0 THEN "true" ELSE "false",
                  files |-> r.files, attempts |-> r.attempts]
        ELSE download_single_version(files, firmware, version_data.v,
                 firmware_config.device, firmware_config.device_key, settings, outcomes[1])

\* data is the catalog fetch_firmware_data returned; outcomes holds the outcome of the
\* download of each version of the catalog entry, in catalog order
download_firmware(files, data, firmware_config, settings, outcomes) ==
    LET firmware == find_firmware_by_name(data, firmware_config.device, firmware_config.name)
        unchanged(result) == [result |-> result, files |-> files, attempts |-> <<>>]
    IN  IF firmware = None THEN unchanged("false")
        ELSE LET version_data == resolve_version(firmware.v, firmware_config.version)
             IN  IF version_data = None THEN unchanged("false")
                 ELSE IF firmware_config.version = S_all /\ version_data.kind = "list"
                 THEN LET r == download_versions(files, firmware.v, version_data.vs,
                                   firmware_config.device, firmware_config.device_key,
                                   settings, outcomes)
                      IN  [result |-> IF r.result = "raise" THEN "raise"
                                      ELSE IF r.success_count > 0 THEN "true" ELSE "false",
                           files |-> r.files, attempts |-> r.attempts]
                 ELSE download_single_version(files, firmware.v, version_data.v,
                          firmware_config.device, firmware_config.device_key,
                          settings, outcomes[1])

(***************************************************************************)
(* FirmwareDownloader.download_github_release_assets                       *)
(***************************************************************************)
\* fnmatch.fnmatch(name, pat) for patterns of literal characters, '*' and '?'
RECURSIVE fnmatch(_, _)
fnmatch(name, pat) ==
    IF pat = <<>> THEN name = <<>>
    ELSE IF Head(pat) = "*"
         THEN fnmatch(name, Tail(pat)) \/ (name # <<>> /\ fnmatch(Tail(name), pat))
    ELSE IF Head(pat) = "?" THEN name # <<>> /\ fnmatch(Tail(name), Tail(pat))
    ELSE name # <<>> /\ Head(name) = Head(pat) /\ fnmatch(Tail(name), Tail(pat))

\* lines 400-429: as lines 166-197, for one release asset
stream_asset_to_file(files, target_file, outcome) ==
    LET cleanup(fs) == IF Exists(fs, target_file) THEN Unlink(fs, target_file) ELSE fs
    IN  IF outcome = "request_error"
        THEN [ok |-> FALSE, files |-> cleanup(files)]
        ELSE LET opened == WriteFile(files, target_file, "partial")
             IN  IF outcome \in {"stream_error", "write_error"}
                 THEN [ok |-> FALSE, files |-> cleanup(opened)]
                 ELSE [ok |-> TRUE, files |-> WriteFile(opened, target_file, "complete")]

\* lines 382-429: every matching asset in turn; an asset carries the outcome its
\* download is going to have
RECURSIVE download_assets(_, _, _, _)
download_assets(files, target_dir, matching_assets, settings) ==
    IF matching_assets = <<>> THEN [success_count |-> 0, files |-> files, attempts |-> <<>>]
    ELSE
        LET asset == Head(matching_assets)
            target_file == <<target_dir, asset.name>>
            before == FileAt(files, target_file)
            one ==
                IF asset.browser_download_url = <<>>
                THEN [ok |-> FALSE, files |-> files,
                      attempts |-> <<Attempt(target_file, asset.browser_download_url, before,
                                             "no_url", files, FALSE, FALSE)>>]
                ELSE IF Exists(files, target_file) /\ ~ settings.overwrite_existing
                THEN [ok |-> TRUE, files |-> files,
                      attempts |-> <<Attempt(target_file, asset.browser_download_url, before,
                                             "skipped", files, TRUE, FALSE)>>]
                ELSE LET r == stream_asset_to_file(files, target_file, asset.outcome)
                     IN  [ok |-> r.ok, files |-> r.files,
                          attempts |-> <<Attempt(target_file, asset.browser_download_url, before,
                                                 asset.outcome, r.files, r.ok, TRUE)>>]
            rest == download_assets(one.files, target_dir, Tail(matching_assets), settings)
        IN  [success_count |-> rest.success_count + (IF one.ok THEN 1 ELSE 0),
             files |-> rest.files,
             attempts |-> one.attempts \o rest.attempts]

\* mutant: a URL that yields no endpoint is only reported, and the request is made anyway
download_github_release_assets_NoReject(files, github_config, settings, release) ==
    LET api_url == parse_github_releases_url(github_config.releases_url)
    IN  [result |-> "false", files |-> files, attempts |-> <<>>, calls |-> <<api_url>>]

\* mutant: success only when every matching asset was downloaded or skipped
download_github_release_assets_AllOrNothing(files, github_config, settings, release) ==
    LET api_url == parse_github_releases_url(github_config.releases_url)
        failed(calls) == [result |-> "false", files |-> files, attempts |-> <<>>, calls |-> calls]
        matching_assets ==
            SelectSeq(release.assets,
                      LAMBDA asset : fnmatch(asset.name, github_config.file_pattern))
        r == download_assets(files, github_config.name, matching_assets, settings)
    IN  IF api_url = None THEN failed(<<>>)
        ELSE IF release.kind # "release" THEN failed(<<api_url>>)
        ELSE IF matching_assets = <<>> \/ github_config.name \in BlockedDirs
             THEN failed(<<api_url>>)
        ELSE [result |-> IF r.success_count = Len(matching_assets) THEN "true" ELSE "false",
              files |-> r.files, attempts |-> r.attempts, calls |-> <<api_url>>]

\* release is what the GitHub API answers to the request of line 349: a request error,
\* a body that is not JSON, or the release data with its assets
download_github_release_assets(files, github_config, settings, release) ==
    LET api_url == parse_github_releases_url(github_config.releases_url)
        failed(calls) == [result |-> "false", files |-> files, attempts |-> <<>>, calls |-> calls]
    IN  IF api_url = None THEN failed(<<>>)
        ELSE IF release.kind # "release" THEN failed(<<api_url>>)
        ELSE IF release.assets = <<>> THEN failed(<<api_url>>)
        ELSE
            LET matching_assets ==
                    SelectSeq(release.assets,
                              LAMBDA asset : fnmatch(asset.name, github_config.file_pattern))
            IN  IF matching_assets = <<>> THEN failed(<<api_url>>)
                ELSE IF github_config.name \in BlockedDirs THEN failed(<<api_url>>)
                ELSE LET r == download_assets(files, github_config.name, matching_assets, settings)
                     IN  [result |-> IF r.success_count > 0 THEN "true" ELSE "false",
                          files |-> r.files, attempts |-> r.attempts, calls |-> <<api_url>>]

(***************************************************************************)
(* State.                                                                  *)
(***************************************************************************)
VARIABLES
    call,           \* pure functions: the function under test and its arguments
    ret,            \* pure functions: its result, or Pending before it is applied
    fw_cfg,         \* firmware tool: command line, settings and configured entries
    firmware_data,  \* FirmwareDownloader.firmware_data, None until fetched
    files,          \* the files under output_base_dir
    fw,             \* firmware main(): place in the code, loop index, result lists
    trace,          \* what the handler that ran last requested and attempted
    exit_code,      \* the process's exit status, "running" until it ends
    repo_cfg,       \* repo tool: operation, copy target, settings and enabled repositories
    dirs,           \* what is at each repository's dest_dir
    tasks,          \* the outcome of process_repo for each repository, "pending" before
    repo,           \* repo main(): place in the code, counters, result list
    repo_trace      \* what the process_repo call that ran last did

vars ==
    <<call, ret, fw_cfg, firmware_data, files, fw, trace, exit_code,
      repo_cfg, dirs, tasks, repo, repo_trace>>
fw_vars == <<fw_cfg, firmware_data, files, fw, trace, exit_code>>
repo_vars == <<repo_cfg, dirs, tasks, repo, repo_trace>>

Pending == [kind |-> "pending"]
NoTrace == [handler |-> "none", entry |-> 0, result |-> "none", calls |-> <<>>, attempts |-> <<>>]
Append1(seq, x) == seq \o <<x>>

(***************************************************************************)
(* Inputs of the pure functions.                                           *)
(***************************************************************************)
\* version labels: plain, prefixed, pre-release, and 'stable' next to a marker
Labels ==
    { <<"1", ".", "0">>,
      <<"v", "2">>,
      <<"1", "-", "B", "e", "t", "a">>,
      <<"2", "-", "r", "c", "1">>,
      <<"D", "E", "V">>,
      <<"s", "t", "a", "b", "l", "e", "-", "r", "c">>,
      <<>> }

FileRefs == {<<"f">>}

VersionRecs == [version : Labels, file : FileRefs]

Selectors == {S_latest, S_stable, S_all, <<"1">>, <<"r", "c">>, <<"x">>}

ResolveCalls ==
    [fn : {"resolve_version"},
     firmware : [versions : SeqsUpTo(VersionRecs, MaxVersions)],
     requested_version : Selectors]

\* a word character, 'v', 'V', a space, a dot, and a character no class keeps
CleanAlphabet == {"a", "v", "V", " ", ".", "/"}

CleanCalls ==
    [fn : {"clean_filename"},
     name : SeqsUpTo(CleanAlphabet, MaxLen),
     version : SeqsUpTo(CleanAlphabet, MaxLen),
     device : {<<"d">>, <<"M", " ", "/">>},
     again : {FALSE}]

S_https_github == <<"h", "t", "t", "p", "s", ":", "/", "/", "g", "i", "t", "h", "u", "b", ".", "c", "o", "m">>
S_releases == <<"r", "e", "l", "e", "a", "s", "e", "s">>

UrlPrefixes == {S_https_github, <<"h", "t", "t", "p", "s", ":", "/", "/", "g", "i", "t", "l", "a", "b", ".", "c", "o", "m">>, S_github_com}
UrlSegments == {<<>>, <<"o">>, <<"r">>, S_releases}

\* prefix/seg1/seg2/...
RECURSIVE JoinPath(_, _)
JoinPath(prefix, segs) ==
    IF segs = <<>> THEN prefix
    ELSE JoinPath(prefix \o <<"/">> \o Head(segs), Tail(segs))

Urls == {JoinPath(p, segs) : p \in UrlPrefixes, segs \in SeqsUpTo(UrlSegments, MaxSegs)}

ParseCalls == [fn : {"parse_github_releases_url"}, releases_url : Urls]

\* the firmware tool at rest, for the specifications that do not run it
FwIdle ==
    /\ fw_cfg = [kind |-> "none"]
    /\ firmware_data = None
    /\ files = <<>>
    /\ fw = [pc |-> "idle"]
    /\ trace = NoTrace
    /\ exit_code = "running"

PureIdle == call = [fn |-> "none"] /\ ret = Pending

\* the repo tool at rest
NoRepoTrace ==
    [entry |-> 0, before |-> "none", git |-> "ok", off_branch |-> FALSE, present |-> {},
     result |-> "none",
     ops |-> <<>>, sources |-> <<>>, run |-> "not_run"]
RepoIdle ==
    /\ repo_cfg = [kind |-> "none"]
    /\ dirs = <<>>
    /\ tasks = <<>>
    /\ repo = [pc |-> "idle"]
    /\ repo_trace = NoRepoTrace

S_bin_pattern == <<"*", ".", "b", "i", "n">>
A_bin == <<"a", ".", "b", "i", "n">>
B_bin == <<"b", ".", "b", "i", "n">>
C_zip == <<"c", ".", "z", "i", "p">>
AssetUrl == <<"u">>

\* what the GitHub API can answer
Releases ==
    {[kind |-> "request_error"], [kind |-> "json_error"], [kind |-> "release", assets |-> <<>>]}
    \cup {[kind |-> "release",
           assets |-> << [name |-> C_zip, browser_download_url |-> AssetUrl, outcome |-> "ok"] >>]}
    \cup {[kind |-> "release",
           assets |-> << [name |-> A_bin, browser_download_url |-> <<>>, outcome |-> "ok"] >>]}
    \cup {[kind |-> "release",
           assets |-> << [name |-> A_bin, browser_download_url |-> AssetUrl, outcome |-> o1],
                         [name |-> B_bin, browser_download_url |-> AssetUrl, outcome |-> o2] >>] :
          o1 \in DownloadOutcomes, o2 \in {"ok", "write_error"}}

S_card == <<"c", "a", "r", "d">>
F1 == <<"f", "1">>
F2 == <<"f", "2">>

\* the remote catalog
Catalog ==
    << [category |-> <<"C", "A", "R", "D">>, name |-> <<"B", "r">>,
        versions |-> << [version |-> <<"v", "1">>, file |-> F1],
                        [version |-> <<"2", "-", "r", "c">>, file |-> F2] >>],
       [category |-> S_card, name |-> <<"n", "o">>,
        versions |-> << [version |-> <<"1">>, file |-> <<>>] >>],
       [category |-> S_card, name |-> <<"e">>, versions |-> <<>>],
       [category |-> <<"S", "T">>, name |-> <<"B", "r">>,
        versions |-> << [version |-> <<"1">>, file |-> F1] >>] >>

\* the files there may be before the run: none, or those an earlier run left (two
\* firmware files and one release asset)
InitialFiles ==
    { <<>>,
      [q \in { <<"k1", clean_filename(<<"B", "r">>, <<"v", "1">>, <<"C", "a", "r", "d">>)>>,
               <<"k1", clean_filename(<<"n", "o">>, <<"1">>, S_card)>>,
               <<"gh", A_bin>> } |-> "old"] }

\* calls of find_firmware_by_name: the catalog with a further entry of three versions,
\* the second without a download file
S_mix == <<"m", "i", "x">>
PureCatalog ==
    Catalog \o << [category |-> S_card, name |-> S_mix,
                   versions |-> << [version |-> <<"1">>, file |-> F1],
                                   [version |-> <<"2">>, file |-> <<>>],
                                   [version |-> <<"3">>, file |-> F2] >>] >>
FindDevices == {S_card, <<"C", "a", "r", "d">>, <<"s", "t">>, <<"c", "a", "r">>, <<>>}
FindNames == {<<"b", "r">>, <<"B">>, <<"x", "B", "R", "x">>, <<"n", "o">>, <<"o">>, <<"z">>, <<>>,
              <<"e", "n", "o">>, S_mix}
FindCalls == [fn : {"find_firmware_by_name"}, device : FindDevices, name : FindNames]

\* calls of download_firmware: a device directory that can be created or not, files of
\* an earlier run or none, overwrite on or off, and the outcome of each transfer
DownloadFirmwareConfigs ==
    [device : {<<"C", "a", "r", "d">>}, name : {<<"b", "r">>, <<"n", "o">>, <<"e">>, <<"z">>, S_mix},
     version : {S_latest, S_all, <<"r", "c">>, <<"9">>}, device_key : {"k1", "k2"}]
PureInitialFiles ==
    InitialFiles \cup {[q \in {<<"k1", clean_filename(S_mix, <<"2">>, <<"C", "a", "r", "d">>)>>,
                               <<"k1", clean_filename(S_mix, <<"3">>, <<"C", "a", "r", "d">>)>>}
                          |-> "old"]}
DownloadFirmwareCalls ==
    [fn : {"download_firmware"}, firmware_config : DownloadFirmwareConfigs,
     files : PureInitialFiles, overwrite_existing : BOOLEAN,
     outcomes : {<<o1, "ok", o3>> : o1 \in DownloadOutcomes, o3 \in {"ok", "stream_error"}}]

GithubCalls ==
    [fn : {"download_github_release_assets"},
     github_config : [name : {"gh"}, releases_url : Urls, file_pattern : {S_bin_pattern}],
     release : Releases, files : {<<>>}, overwrite_existing : {FALSE}]

\* calls with a releases page URL: a target directory that can be created or not, two
\* patterns, an asset of an earlier run or none, overwrite on or off
GithubAssetCalls ==
    [fn : {"download_github_release_assets"},
     github_config : [name : {"gh", "k2"},
                      releases_url : {JoinPath(S_https_github, <<(<<"o">>), (<<"r">>), S_releases>>)},
                      file_pattern : {S_bin_pattern, <<"a", "*">>, <<"?", ".", "z", "i", "p">>}],
     release : Releases, files : {<<>>, [q \in {<<"gh", A_bin>>} |-> "old"]},
     overwrite_existing : BOOLEAN]

InitPure ==
    /\ call \in (ResolveCalls \cup CleanCalls \cup ParseCalls \cup GithubCalls
                   \cup GithubAssetCalls
                   \cup FindCalls \cup DownloadFirmwareCalls)
    /\ ret = Pending
    /\ FwIdle
    /\ RepoIdle

ApplyResolveVersion ==
    /\ call.fn = "resolve_version"
    /\ ret = Pending
    /\ ret' = resolve_version(call.firmware, call.requested_version)
    /\ UNCHANGED <<call, fw_vars, repo_vars>>

\* the result, and the three cleaned components it is composed of
ApplyCleanFilename ==
    /\ call.fn = "clean_filename"
    /\ ret = Pending
    /\ ret' = [kind |-> "filename",
               filename |-> clean_filename(call.name, call.version, call.device),
               clean_name |-> clean_name(call.name),
               clean_version |-> clean_version(call.version),
               clean_device |-> clean_name(call.device)]
    /\ UNCHANGED <<call, fw_vars, repo_vars>>

\* the cleaning applied once more, to the components it produced
ReapplyCleanFilename ==
    /\ call.fn = "clean_filename"
    /\ ret # Pending
    /\ ~ call.again
    /\ call' = [call EXCEPT !.name = ret.clean_name, !.version = ret.clean_version,
                            !.device = ret.clean_device, !.again = TRUE]
    /\ ret' = Pending
    /\ UNCHANGED <<fw_vars, repo_vars>>

ApplyParseUrl ==
    /\ call.fn = "parse_github_releases_url"
    /\ ret = Pending
    /\ ret' = parse_github_releases_url(call.releases_url)
    /\ UNCHANGED <<call, fw_vars, repo_vars>>

ApplyDownloadGithub ==
    /\ call.fn = "download_github_release_assets"
    /\ ret = Pending
    /\ ret' = download_github_release_assets(call.files, call.github_config,
                   [overwrite_existing |-> call.overwrite_existing], call.release)
    /\ UNCHANGED <<call, fw_vars, repo_vars>>

ApplyFindFirmware ==
    /\ call.fn = "find_firmware_by_name"
    /\ ret = Pending
    /\ ret' = find_firmware_by_name(PureCatalog, call.device, call.name)
    /\ UNCHANGED <<call, fw_vars, repo_vars>>

ApplyDownloadFirmware ==
    /\ call.fn = "download_firmware"
    /\ ret = Pending
    /\ ret' = download_firmware(call.files, PureCatalog, call.firmware_config,
                                [overwrite_existing |-> call.overwrite_existing],
                                call.outcomes)
    /\ UNCHANGED <<call, fw_vars, repo_vars>>

NextPure ==
    \/ ApplyFindFirmware
    \/ ApplyDownloadFirmware
    \/ ApplyDownloadGithub
    \/ ApplyResolveVersion
    \/ ApplyCleanFilename
    \/ ReapplyCleanFilename
    \/ ApplyParseUrl

SpecPure == InitPure /\ [][NextPure]_vars

(***************************************************************************)
(* The firmware tool: firmware_downloader.main                             *)
(***************************************************************************)
MaxConfigs == 2

\* entries of get_firmware_configs(): found, fanned out, without a download file,
\* not in the catalog, and with a device directory that cannot be created
FirmwareConfigs ==
    { [device |-> <<"C", "a", "r", "d">>, name |-> <<"b", "r">>, version |-> S_latest, device_key |-> "k1"],
      [device |-> <<"C", "a", "r", "d">>, name |-> <<"b", "r">>, version |-> S_all, device_key |-> "k1"],
      [device |-> S_card, name |-> <<"n", "o">>, version |-> S_latest, device_key |-> "k1"],
      [device |-> S_card, name |-> <<"z">>, version |-> S_latest, device_key |-> "k1"],
      [device |-> S_card, name |-> <<"B", "r">>, version |-> <<"r", "c">>, device_key |-> "k2"] }

GithubUrl == JoinPath(S_https_github, <<(<<"o">>), (<<"r">>), S_releases>>)
GitlabUrl == JoinPath(<<"h", "t", "t", "p", "s", ":", "/", "/", "g", "i", "t", "l", "a", "b", ".", "c", "o", "m">>, <<(<<"o">>), (<<"r">>), S_releases>>)

G_ok == [name |-> "gh", releases_url |-> GithubUrl, file_pattern |-> S_bin_pattern]
G_bad == [name |-> "gh", releases_url |-> GitlabUrl, file_pattern |-> S_bin_pattern]
G_blocked == [name |-> "k2", releases_url |-> GithubUrl \o <<"/">>, file_pattern |-> <<"a", "*">>]

GithubConfigLists == {<<G_bad, G_ok>>, <<G_blocked>>}

\* --dry-run, --github-only, --skip-github, --list-devices, --list-firmware DEVICE
ArgSets ==
    { [dry_run |-> FALSE, github_only |-> FALSE, skip_github |-> FALSE,
       list_devices |-> FALSE, list_firmware |-> None],
      [dry_run |-> TRUE, github_only |-> FALSE, skip_github |-> FALSE,
       list_devices |-> FALSE, list_firmware |-> None],
      [dry_run |-> FALSE, github_only |-> TRUE, skip_github |-> FALSE,
       list_devices |-> FALSE, list_firmware |-> None],
      [dry_run |-> FALSE, github_only |-> FALSE, skip_github |-> TRUE,
       list_devices |-> FALSE, list_firmware |-> None],
      [dry_run |-> FALSE, github_only |-> FALSE, skip_github |-> FALSE,
       list_devices |-> TRUE, list_firmware |-> None],
      [dry_run |-> FALSE, github_only |-> FALSE, skip_github |-> FALSE,
       list_devices |-> FALSE, list_firmware |-> Str(S_card)] }

\* the state at line 558: configuration loaded, --force applied; firmware_configs are
\* the entries that lines 572-588 select; catalog_requests counts the requests for the
\* catalog made so far
InitFw ==
    /\ fw_cfg \in [args : ArgSets,
                   settings : [overwrite_existing : BOOLEAN],
                   firmware_configs : SeqsUpTo(FirmwareConfigs, MaxConfigs),
                   github_releases : GithubConfigLists]
    /\ firmware_data = None
    /\ files \in InitialFiles
    /\ fw = [pc |-> IF fw_cfg.args.list_devices \/ fw_cfg.args.list_firmware # None
                     THEN "list" ELSE "m5",
             i |-> 1, m5_successful |-> <<>>, m5_failed |-> <<>>,
             github_successful |-> <<>>, github_failed |-> <<>>, catalog_requests |-> 0]
    /\ trace = NoTrace
    /\ exit_code = "running"
    /\ PureIdle
    /\ RepoIdle

\* lines 596-601
M5DryRun ==
    /\ fw.pc = "m5"
    /\ ~ fw_cfg.args.github_only
    /\ fw_cfg.args.dry_run
    /\ fw.i <= Len(fw_cfg.firmware_configs)
    /\ fw' = [fw EXCEPT !.i = @ + 1, !.m5_successful = Append1(@, fw.i)]
    /\ trace' = [NoTrace EXCEPT !.handler = "dry_run", !.entry = fw.i, !.result = "true"]
    /\ UNCHANGED <<repo_vars, call, ret, fw_cfg, firmware_data, files, exit_code>>

\* the answers to the request for the catalog: the catalog, a body that is the JSON
\* null, and a request or parse error
Responses == {"ok", "null", "request_error"}

\* mutant: the catalog is requested on every call
fetch_firmware_data_NoMemo(data, response) ==
    IF response = "ok" THEN [result |-> "ok", data |-> Str(Catalog), calls |-> <<"catalog">>]
    ELSE IF response = "null" THEN [result |-> "ok", data |-> None, calls |-> <<"catalog">>]
    ELSE [result |-> "exit", data |-> None, calls |-> <<"catalog">>]

\* lines 40-62: the memoized catalog, or one request that ends the process when it fails;
\* data is self.firmware_data after the call, which is also what the call returns
fetch_firmware_data(data, response) ==
    IF data # None THEN [result |-> "ok", data |-> data, calls |-> <<>>]
    ELSE IF response = "ok" THEN [result |-> "ok", data |-> Str(Catalog), calls |-> <<"catalog">>]
    ELSE IF response = "null" THEN [result |-> "ok", data |-> None, calls |-> <<"catalog">>]
    ELSE [result |-> "exit", data |-> None, calls |-> <<"catalog">>]

\* the catalog operation of a list action ends main: sys.exit(1) when the fetch fails, a
\* TypeError from iterating None (lines 68, 81) when the body was null, else a return
Listed(handler, response) ==
    LET fetched == fetch_firmware_data(firmware_data, response)
    IN  /\ firmware_data' = fetched.data
        /\ fw' = [fw EXCEPT !.pc = IF fetched.result = "exit" THEN "exited"
                                   ELSE IF fetched.data = None THEN "crashed"
                                   ELSE "returned",
                            !.catalog_requests = @ + Len(fetched.calls)]
        /\ exit_code' = IF fetched.result = "ok" /\ fetched.data # None THEN 0 ELSE 1
        /\ trace' = [NoTrace EXCEPT !.handler = handler,
                                    !.result = IF fetched.result = "exit" THEN "exit"
                                               ELSE IF fetched.data = None THEN "raise"
                                               ELSE "true",
                                    !.calls = fetched.calls]
        /\ UNCHANGED <<repo_vars, call, ret, fw_cfg, files>>

\* lines 559-561: list_devices (lines 241-246), then return
ListDevices ==
    /\ fw.pc = "list"
    /\ fw_cfg.args.list_devices
    /\ \E response \in Responses : Listed("list_devices", response)

\* lines 563-565: list_firmware (lines 248-263), then return
ListFirmware ==
    /\ fw.pc = "list"
    /\ ~ fw_cfg.args.list_devices
    /\ fw_cfg.args.list_firmware # None
    /\ \E response \in Responses : Listed("list_firmware", response)

\* lines 603-609: one entry; the loop has no exception handler, and sys.exit ends it too
M5Download ==
    /\ fw.pc = "m5"
    /\ ~ fw_cfg.args.github_only
    /\ ~ fw_cfg.args.dry_run
    /\ fw.i <= Len(fw_cfg.firmware_configs)
    /\ \E response \in (IF firmware_data = None THEN Responses ELSE {"ok"}),
          o1 \in DownloadOutcomes,
          o2 \in (IF fw_cfg.firmware_configs[fw.i].version = S_all
                  THEN DownloadOutcomes ELSE {"ok"}) :
          LET fetched == fetch_firmware_data(firmware_data, response)
              outcomes == <<o1, o2>>
          IN  IF fetched.result = "exit"
              THEN /\ fw' = [fw EXCEPT !.pc = "exited",
                                       !.catalog_requests = @ + Len(fetched.calls)]
                   /\ exit_code' = 1
                   /\ trace' = [NoTrace EXCEPT !.handler = "download_firmware", !.entry = fw.i,
                                               !.result = "exit", !.calls = fetched.calls]
                   /\ UNCHANGED <<firmware_data, files>>
              ELSE IF fetched.data = None
              THEN \* line 81 iterates None: the TypeError leaves main
                   /\ fw' = [fw EXCEPT !.pc = "crashed",
                                       !.catalog_requests = @ + Len(fetched.calls)]
                   /\ exit_code' = 1
                   /\ trace' = [NoTrace EXCEPT !.handler = "download_firmware", !.entry = fw.i,
                                               !.result = "raise", !.calls = fetched.calls]
                   /\ UNCHANGED <<firmware_data, files>>
              ELSE LET r == download_firmware(files, fetched.data.s, fw_cfg.firmware_configs[fw.i],
                                              fw_cfg.settings, outcomes)
                   IN  /\ firmware_data' = fetched.data
                       /\ files' = r.files
                       /\ trace' = [handler |-> "download_firmware", entry |-> fw.i,
                                    result |-> r.result, calls |-> fetched.calls,
                                    attempts |-> r.attempts]
                       /\ fw' = LET counted == [fw EXCEPT !.catalog_requests
                                                          = @ + Len(fetched.calls)]
                                IN  IF r.result = "raise" THEN [counted EXCEPT !.pc = "crashed"]
                                    ELSE IF r.result = "true"
                                    THEN [counted EXCEPT !.i = @ + 1,
                                                         !.m5_successful = Append1(@, fw.i)]
                                    ELSE [counted EXCEPT !.i = @ + 1,
                                                         !.m5_failed = Append1(@, fw.i)]
                       /\ exit_code' = IF r.result = "raise" THEN 1 ELSE exit_code
    /\ UNCHANGED <<repo_vars, call, ret, fw_cfg>>

\* line 594 false, or the loop is through: on to line 611
M5End ==
    /\ fw.pc = "m5"
    /\ fw_cfg.args.github_only \/ fw.i > Len(fw_cfg.firmware_configs)
    /\ fw' = [fw EXCEPT !.pc = "github", !.i = 1]
    /\ UNCHANGED <<repo_vars, call, ret, fw_cfg, firmware_data, files, trace, exit_code>>

\* lines 620-623
GithubDryRun ==
    /\ fw.pc = "github"
    /\ ~ fw_cfg.args.skip_github
    /\ fw_cfg.args.dry_run
    /\ fw.i <= Len(fw_cfg.github_releases)
    /\ fw' = [fw EXCEPT !.i = @ + 1, !.github_successful = Append1(@, fw.i)]
    /\ trace' = [NoTrace EXCEPT !.handler = "dry_run", !.entry = fw.i, !.result = "true"]
    /\ UNCHANGED <<repo_vars, call, ret, fw_cfg, firmware_data, files, exit_code>>

\* lines 625-630
GithubDownload ==
    /\ fw.pc = "github"
    /\ ~ fw_cfg.args.skip_github
    /\ ~ fw_cfg.args.dry_run
    /\ fw.i <= Len(fw_cfg.github_releases)
    /\ \E release \in Releases :
          LET r == download_github_release_assets(files, fw_cfg.github_releases[fw.i],
                                                  fw_cfg.settings, release)
          IN  /\ files' = r.files
              /\ trace' = [handler |-> "download_github_release_assets", entry |-> fw.i,
                           result |-> r.result, calls |-> r.calls, attempts |-> r.attempts]
              /\ fw' = IF r.result = "true"
                       THEN [fw EXCEPT !.i = @ + 1, !.github_successful = Append1(@, fw.i)]
                       ELSE [fw EXCEPT !.i = @ + 1, !.github_failed = Append1(@, fw.i)]
    /\ UNCHANGED <<repo_vars, call, ret, fw_cfg, firmware_data, exit_code>>

total_successful_count == Len(fw.m5_successful) + Len(fw.github_successful)
\* mutant: the GitHub failures are left out of the total
total_failed_count_M5Only == Len(fw.m5_failed)

total_failed_count == Len(fw.m5_failed) + Len(fw.github_failed)

\* lines 632-668: the report, and the exit status
Summary ==
    /\ fw.pc = "github"
    /\ fw_cfg.args.skip_github \/ fw.i > Len(fw_cfg.github_releases)
    /\ fw' = [fw EXCEPT !.pc = "done"]
    /\ exit_code' = IF total_failed_count > 0 THEN 1 ELSE 0
    /\ UNCHANGED <<repo_vars, call, ret, fw_cfg, firmware_data, files, trace>>

NextFw ==
    \/ ListDevices
    \/ ListFirmware
    \/ M5DryRun
    \/ M5Download
    \/ M5End
    \/ GithubDryRun
    \/ GithubDownload
    \/ Summary

SpecFw == InitFw /\ [][NextFw]_vars

(***************************************************************************)
(* The repo tool: sync_repos.py.                                           *)
(***************************************************************************)
MaxRepos == 2

\* what can be at a dest_dir
DirStates == {"absent", "nonrepo", "repo"}

\* is_git_repo, lines 20-26: Repo(path) raises InvalidGitRepositoryError unless path is
\* a repository
is_git_repo(d) == d = "repo"

\* clone_repo, lines 29-51: every exception of clone_from becomes (False, message)
clone_repo(git) ==
    [result |-> IF git # "clone_error" THEN "true" ELSE "false",
     ops |-> <<"clone">>,
     dir |-> IF git # "clone_error" THEN "repo" ELSE "absent"]

\* mutant: the steps after a failing one are still run
sync_repo_KeepGoing(d, git, off_branch) ==
    LET planned == IF off_branch THEN <<"fetch", "checkout", "pull">> ELSE <<"fetch", "pull">>
    IN  IF d # "repo" THEN [result |-> "false", ops |-> <<>>, dir |-> d]
        ELSE [result |-> IF \E k \in 1..Len(planned) : git = planned[k] \o "_error"
                         THEN "false" ELSE "true",
              ops |-> planned, dir |-> d]

\* sync_repo, lines 54-87: open the repository, fetch, checkout when on another branch,
\* pull; the first one that raises ends the call with (False, message)
sync_repo(d, git, off_branch) ==
    LET planned == IF off_branch THEN <<"fetch", "checkout", "pull">> ELSE <<"fetch", "pull">>
        failing == FirstMatch([k \in 1..Len(planned) |-> git = planned[k] \o "_error"])
    IN  IF d # "repo" THEN [result |-> "false", ops |-> <<>>, dir |-> d]
        ELSE [result |-> IF failing = 0 THEN "true" ELSE "false",
              ops |-> IF failing = 0 THEN planned ELSE SubSeq(planned, 1, failing),
              dir |-> d]

\* mutant: a destination that is not a repository is cloned over
git_operations_CloneOver(d, operation, env) ==
    IF operation \notin {"sync", "both"} THEN [result |-> "true", ops |-> <<>>, dir |-> d]
    ELSE IF is_git_repo(d) THEN sync_repo(d, env.git, env.off_branch)
    ELSE IF env.git = "mkdir_error" THEN [result |-> "raise", ops |-> <<>>, dir |-> d]
    ELSE clone_repo(env.git)

\* process_repo, lines 204-223: the git part
git_operations(d, operation, env) ==
    IF operation \notin {"sync", "both"} THEN [result |-> "true", ops |-> <<>>, dir |-> d]
    ELSE IF d # "absent"
         THEN IF is_git_repo(d) THEN sync_repo(d, env.git, env.off_branch)
              ELSE [result |-> "false", ops |-> <<>>, dir |-> d]
    ELSE IF env.git = "mkdir_error" THEN [result |-> "raise", ops |-> <<>>, dir |-> d]
    ELSE clone_repo(env.git)

\* mutant: missing sources do not turn the result of a clean copy into failure
rsync_files_MissingOk(repo_config, copy_base_dir, present, rsync) ==
    LET copy_everything == repo_config.copy_files = <<>>
        copy_files == IF copy_everything THEN <<"./">> ELSE repo_config.copy_files
        source_exists(f) == copy_everything \/ f \in present
        source(f) == [repo_path |-> repo_config.dest_dir, path |-> f, slash |-> copy_everything]
        all_sources == [k \in 1..Len(copy_files) |-> source(copy_files[k])]
        valid_sources == SelectSeq(all_sources, LAMBDA x : source_exists(x.path))
        silent(result) == [result |-> result, ops |-> <<>>, sources |-> <<>>, run |-> "not_run"]
    IN  IF copy_base_dir = "none" THEN silent("true")
        ELSE IF valid_sources = <<>> THEN silent("false")
        ELSE IF rsync = "mkdir_error" THEN silent("raise")
        ELSE [result |-> IF rsync = "rsync_error" THEN "false" ELSE "true",
              ops |-> <<"rsync">>, sources |-> valid_sources,
              run |-> IF rsync = "rsync_error" THEN "error" ELSE "clean"]

\* mutant: one rsync run for each valid source
rsync_files_PerSource(repo_config, copy_base_dir, present, rsync) ==
    LET copy_everything == repo_config.copy_files = <<>>
        copy_files == IF copy_everything THEN <<"./">> ELSE repo_config.copy_files
        source_exists(f) == copy_everything \/ f \in present
        source(f) == [repo_path |-> repo_config.dest_dir, path |-> f, slash |-> copy_everything]
        all_sources == [k \in 1..Len(copy_files) |-> source(copy_files[k])]
        valid_sources == SelectSeq(all_sources, LAMBDA x : source_exists(x.path))
        silent(result) == [result |-> result, ops |-> <<>>, sources |-> <<>>, run |-> "not_run"]
    IN  IF copy_base_dir = "none" THEN silent("true")
        ELSE IF valid_sources = <<>> THEN silent("false")
        ELSE IF rsync = "mkdir_error" THEN silent("raise")
        ELSE [result |-> IF rsync = "rsync_error" \/ Len(valid_sources) < Len(all_sources)
                         THEN "false" ELSE "true",
              ops |-> [k \in 1..Len(valid_sources) |-> "rsync"], sources |-> valid_sources,
              run |-> IF rsync = "rsync_error" THEN "error" ELSE "clean"]

\* rsync_files, lines 95-182; present is the set of configured paths that exist under
\* the repository, rsync what the mkdir and the rsync run do; run tells how the rsync
\* run ended ("not_run" when there was none)
rsync_files(repo_config, copy_base_dir, present, rsync) ==
    LET copy_everything == repo_config.copy_files = <<>>
        copy_files == IF copy_everything THEN <<"./">> ELSE repo_config.copy_files
        source_exists(f) == copy_everything \/ f \in present
        source(f) == [repo_path |-> repo_config.dest_dir, path |-> f, slash |-> copy_everything]
        all_sources == [k \in 1..Len(copy_files) |-> source(copy_files[k])]
        valid_sources == SelectSeq(all_sources, LAMBDA x : source_exists(x.path))
        missing_sources == SelectSeq(all_sources, LAMBDA x : ~ source_exists(x.path))
        silent(result) == [result |-> result, ops |-> <<>>, sources |-> <<>>, run |-> "not_run"]
    IN  IF copy_base_dir = "none" THEN silent("true")
        ELSE IF valid_sources = <<>> THEN silent("false")
        ELSE IF rsync = "mkdir_error" THEN silent("raise")
        ELSE IF rsync = "rsync_error"
             THEN [result |-> "false", ops |-> <<"rsync">>, sources |-> valid_sources,
                   run |-> "error"]
        ELSE [result |-> IF missing_sources = <<>> THEN "true" ELSE "false",
              ops |-> <<"rsync">>, sources |-> valid_sources, run |-> "clean"]

\* process_repo, lines 185-254: the result ("true", "false", or "raise" for an exception
\* that leaves the call), the git and rsync operations invoked, and what is at dest_dir
\* afterwards
process_repo(repo_config, d, operation, copy_base_dir, env) ==
    LET git == git_operations(d, operation, env)
        copied == rsync_files(repo_config, copy_base_dir, env.present, env.rsync)
        without_copy(result, ops, dir) ==
            [result |-> result, ops |-> ops, sources |-> <<>>, run |-> "not_run", dir |-> dir]
    IN  IF ~ repo_config.enabled THEN without_copy("true", <<>>, d)
        ELSE IF git.result # "true" THEN without_copy(git.result, git.ops, git.dir)
        ELSE IF operation \notin {"copy", "both"} THEN without_copy("true", git.ops, git.dir)
        ELSE IF operation = "copy" /\ d = "absent" THEN without_copy("false", <<>>, d)
        ELSE [result |-> copied.result, ops |-> git.ops \o copied.ops,
              sources |-> copied.sources, run |-> copied.run, dir |-> git.dir]

\* repositories of repos.toml, each with a dest_dir of its own
R1 == [name |-> "a", dest_dir |-> "d1", copy_files |-> <<>>]
R2 == [name |-> "b", dest_dir |-> "d2", copy_files |-> <<"x", "y">>]
R3 == [name |-> "c", dest_dir |-> "d3", copy_files |-> <<"x">>]
Configured == <<R1, R2, R3>>
Dests == {Configured[k].dest_dir : k \in 1..Len(Configured)}

\* the configured list under each choice of 'enabled' flags
Repositories ==
    {[k \in 1..Len(Configured) |->
        [name |-> Configured[k].name, dest_dir |-> Configured[k].dest_dir,
         copy_files |-> Configured[k].copy_files, enabled |-> k \in on]] :
     on \in SUBSET (1..Len(Configured))}

\* mutant: the disabled repositories stay in the list
EnabledOnly_KeepAll(repositories) == repositories

\* line 398
EnabledOnly(repositories) == SelectSeq(repositories, LAMBDA r : r.enabled)

\* operation, --copy-to and settings.firmware_dir ("present"/"absent": configured, and
\* the directory is there or not); copy and both do not get here without --copy-to
\* (lines 388-390)
RunModes ==
    {[operation |-> "sync", copy_base_dir |-> "none", firmware_dir |-> "none"],
     [operation |-> "sync", copy_base_dir |-> "out", firmware_dir |-> "present"],
     [operation |-> "copy", copy_base_dir |-> "out", firmware_dir |-> "none"],
     [operation |-> "copy", copy_base_dir |-> "out", firmware_dir |-> "present"],
     [operation |-> "both", copy_base_dir |-> "out", firmware_dir |-> "present"],
     [operation |-> "both", copy_base_dir |-> "out", firmware_dir |-> "absent"]}

\* what git, the file system and rsync do during one process_repo call
Envs(repo_config, d, operation) ==
    LET gits == IF operation = "copy" THEN {"ok"}
                ELSE IF d = "repo" THEN {"ok", "fetch_error", "checkout_error", "pull_error"}
                ELSE IF d = "absent" THEN {"ok", "mkdir_error", "clone_error"}
                ELSE {"ok"}
        branches == IF operation # "copy" /\ d = "repo" THEN BOOLEAN ELSE {FALSE}
        paths == {repo_config.copy_files[k] : k \in 1..Len(repo_config.copy_files)}
        presents == IF operation = "sync" THEN {{}} ELSE SUBSET paths
        rsyncs == IF operation = "sync" THEN {"ok"} ELSE {"ok", "mkdir_error", "rsync_error"}
    IN  [git : gits, off_branch : branches, present : presents, rsync : rsyncs]

\* main at line 397, before the disabled repositories are filtered out; dirs_at_start
\* keeps what was at each dest_dir when the run began
InitRepo ==
    /\ \E all \in Repositories, mode \in RunModes, jobs \in {1, 2} :
        /\ Cardinality({k \in 1..Len(all) : all[k].enabled}) <= MaxRepos
        /\ dirs \in {f \in [Dests -> DirStates] :
                        \A k \in 1..Len(all) : ~ all[k].enabled => f[all[k].dest_dir] = "absent"}
        /\ repo_cfg = [configured |-> all, repositories |-> all,
                       operation |-> mode.operation,
                       copy_base_dir |-> mode.copy_base_dir,
                       firmware_dir |-> mode.firmware_dir, parallel_jobs |-> jobs,
                       dirs_at_start |-> dirs]
    /\ tasks = <<>>
    /\ repo = [pc |-> "filter", i |-> 1, successful |-> 0, failed |-> 0, results |-> <<>>,
               collected |-> {}, firmware |-> "pending"]
    /\ repo_trace = NoRepoTrace
    /\ exit_code = "running"
    /\ PureIdle
    /\ fw_cfg = [kind |-> "none"] /\ firmware_data = None /\ files = <<>>
    /\ fw = [pc |-> "idle"] /\ trace = NoTrace

not_repo_vars == <<call, ret, fw_cfg, firmware_data, files, fw, trace>>

N == Len(repo_cfg.repositories)

\* mutant: an exception is not counted
record_result_DropRaise(r, name, result) ==
    [r EXCEPT !.results = Append(@, <<name, result = "true">>),
              !.successful = IF result = "true" THEN @ + 1 ELSE @,
              !.failed = IF result = "false" THEN @ + 1 ELSE @]

\* lines 446-456 and 463-475: one result goes into the counters and the result list
record_result(r, name, result) ==
    [r EXCEPT !.results = Append(@, <<name, result = "true">>),
              !.successful = IF result = "true" THEN @ + 1 ELSE @,
              !.failed = IF result # "true" THEN @ + 1 ELSE @]

\* lines 397-402: the disabled repositories are dropped; with none left main returns
FilterDisabled ==
    /\ repo.pc = "filter"
    /\ repo_cfg' = [repo_cfg EXCEPT !.repositories = EnabledOnly(@)]
    /\ tasks' = [k \in 1..Len(repo_cfg'.repositories) |-> "pending"]
    /\ IF repo_cfg'.repositories = <<>>
       THEN repo' = [repo EXCEPT !.pc = "done"] /\ exit_code' = 0
       ELSE repo' = [repo EXCEPT !.pc = "batch"] /\ UNCHANGED exit_code
    /\ UNCHANGED <<not_repo_vars, dirs, repo_trace>>

\* what one process_repo call leaves in tasks, dirs and repo_trace
Ran(k, env) ==
    LET repo_config == repo_cfg.repositories[k]
        before == dirs[repo_config.dest_dir]
        done == process_repo(repo_config, before, repo_cfg.operation,
                             repo_cfg.copy_base_dir, env)
    IN  /\ tasks' = [tasks EXCEPT ![k] = done.result]
        /\ dirs' = [dirs EXCEPT ![repo_config.dest_dir] = done.dir]
        /\ repo_trace' = [entry |-> k, before |-> before, git |-> env.git,
                          off_branch |-> env.off_branch,
                          present |-> env.present, result |-> done.result,
                          ops |-> done.ops, sources |-> done.sources, run |-> done.run]

\* lines 459-478: one turn of the sequential loop
SeqProcess ==
    /\ repo.pc = "batch"
    /\ repo_cfg.parallel_jobs <= 1
    /\ repo.i <= N
    /\ \E env \in Envs(repo_cfg.repositories[repo.i],
                       dirs[repo_cfg.repositories[repo.i].dest_dir], repo_cfg.operation) :
        Ran(repo.i, env)
    /\ repo' = [record_result(repo, repo_cfg.repositories[repo.i].name, tasks'[repo.i])
                    EXCEPT !.i = @ + 1, !.collected = @ \cup {repo.i}]
    /\ UNCHANGED <<not_repo_vars, repo_cfg, exit_code>>

\* lines 438-442: a worker runs process_repo for a submitted repository
ParRun(k) ==
    /\ repo.pc = "batch"
    /\ repo_cfg.parallel_jobs > 1
    /\ tasks[k] = "pending"
    /\ \E env \in Envs(repo_cfg.repositories[k],
                       dirs[repo_cfg.repositories[k].dest_dir], repo_cfg.operation) :
        Ran(k, env)
    /\ UNCHANGED <<not_repo_vars, repo_cfg, repo, exit_code>>

\* mutant: a finished future is handed over again and again
ParCollect_Again(k) ==
    /\ repo.pc = "batch"
    /\ repo_cfg.parallel_jobs > 1
    /\ tasks[k] # "pending"
    /\ Len(repo.results) <= Len(tasks)
    /\ repo' = [record_result(repo, repo_cfg.repositories[k].name, tasks[k])
                    EXCEPT !.collected = @ \cup {k}]
    /\ UNCHANGED <<not_repo_vars, repo_cfg, dirs, tasks, repo_trace, exit_code>>

\* lines 444-456: as_completed hands over a finished future
ParCollect(k) ==
    /\ repo.pc = "batch"
    /\ repo_cfg.parallel_jobs > 1
    /\ tasks[k] # "pending"
    /\ k \notin repo.collected
    /\ repo' = [record_result(repo, repo_cfg.repositories[k].name, tasks[k])
                    EXCEPT !.collected = @ \cup {k}]
    /\ UNCHANGED <<not_repo_vars, repo_cfg, dirs, tasks, repo_trace, exit_code>>

\* lines 480-507: the firmware directory is mirrored after the batch
FirmwareDirSync ==
    /\ repo.pc = "batch"
    /\ repo.collected = 1..N
    /\ \E outcome \in {"ok", "mkdir_error", "rsync_error"} :
        LET wanted == /\ repo_cfg.firmware_dir # "none"
                      /\ repo_cfg.copy_base_dir # "none"
                      /\ repo_cfg.operation \in {"copy", "both"}
            done == IF wanted /\ repo_cfg.firmware_dir = "present" THEN outcome ELSE "skipped"
        IN  repo' = [repo EXCEPT !.pc = "summary",
                                 !.firmware = done,
                                 !.failed = IF done \in {"mkdir_error", "rsync_error"}
                                            THEN @ + 1 ELSE @]
    /\ UNCHANGED <<not_repo_vars, repo_cfg, dirs, tasks, repo_trace, exit_code>>

\* lines 509-524
RepoSummary ==
    /\ repo.pc = "summary"
    /\ repo' = [repo EXCEPT !.pc = "done"]
    /\ exit_code' = IF repo.failed > 0 THEN 1 ELSE 0
    /\ UNCHANGED <<not_repo_vars, repo_cfg, dirs, tasks, repo_trace>>

NextRepo ==
    \/ FilterDisabled
    \/ SeqProcess
    \/ \E k \in DOMAIN tasks : ParRun(k)
    \/ \E k \in DOMAIN tasks : ParCollect(k)
    \/ FirmwareDirSync
    \/ RepoSummary

SpecRepo == InitRepo /\ [][NextRepo]_vars

(***************************************************************************)
(* The repo tool in parallel mode, worker by worker: process_repo is no    *)
(* longer one step, and the configuration and the requested names are any  *)
(* that main accepts.                                                      *)
(***************************************************************************)
\* filter_repositories, lines 333-356: repo_map keeps the last entry of each name; every
\* requested name contributes its entry, once per occurrence; a name that is not
\* configured ends the process
filter_repositories(repositories, requested_names) ==
    LET names == {repositories[k].name : k \in 1..Len(repositories)}
        last(name) == CHOOSE k \in 1..Len(repositories) :
                          /\ repositories[k].name = name
                          /\ \A j \in (k + 1)..Len(repositories) : repositories[j].name # name
        repo_map(name) == repositories[last(name)]
        missing_repos == SelectSeq(requested_names, LAMBDA name : name \notin names)
    IN  IF requested_names = <<>> THEN [exit |-> FALSE, repositories |-> repositories]
        ELSE IF missing_repos # <<>> THEN [exit |-> TRUE, repositories |-> <<>>]
        ELSE [exit |-> FALSE,
              repositories |-> [k \in 1..Len(requested_names) |-> repo_map(requested_names[k])]]

\* entries of repos.toml: nothing in load_config or main asks that names or dest_dirs
\* differ
WorkerEntries ==
    { [name |-> "a", dest_dir |-> "d1", enabled |-> TRUE],
      [name |-> "b", dest_dir |-> "d2", enabled |-> TRUE],
      [name |-> "c", dest_dir |-> "d1", enabled |-> TRUE],
      [name |-> "a", dest_dir |-> "d2", enabled |-> TRUE],
      [name |-> "e", dest_dir |-> "d2", enabled |-> FALSE] }
WorkerDests == {r.dest_dir : r \in WorkerEntries}
RequestedNames == {"a", "b", "zz"}

\* main at line 382, in parallel mode with operation sync: a non-empty configuration
\* (lines 366-368), any requested names
InitWorkers ==
    /\ \E configured \in SeqsUpTo(WorkerEntries, MaxRepos) \ {<<>>},
          requested_names \in SeqsUpTo(RequestedNames, MaxRepos) :
        repo_cfg = [configured |-> configured, requested_names |-> requested_names,
                    repositories |-> configured, operation |-> "sync", parallel_jobs |-> 2]
    /\ \E d \in DirStates : dirs = [dest \in WorkerDests |-> d]
    /\ tasks = <<>>
    /\ repo = [pc |-> "filter", successful |-> 0, failed |-> 0, results |-> <<>>,
               collected |-> {}]
    /\ repo_trace = NoRepoTrace
    /\ FwIdle
    /\ PureIdle

\* lines 383, 397-402 and 438-442: the requested and enabled repositories are selected
\* and one process_repo task is submitted for each
FilterRequested ==
    /\ repo.pc = "filter"
    /\ LET filtered == filter_repositories(repo_cfg.repositories, repo_cfg.requested_names)
           enabled == EnabledOnly(filtered.repositories)
       IN  /\ repo_cfg' = [repo_cfg EXCEPT !.repositories = enabled]
           /\ tasks' = [k \in 1..Len(enabled) |->
                           [pc |-> "queued", seen |-> "none", result |-> "none"]]
           /\ IF filtered.exit
              THEN repo' = [repo EXCEPT !.pc = "exited"] /\ exit_code' = 1
              ELSE IF enabled = <<>>
              THEN repo' = [repo EXCEPT !.pc = "done"] /\ exit_code' = 0
              ELSE repo' = [repo EXCEPT !.pc = "batch"] /\ UNCHANGED exit_code
    /\ UNCHANGED <<not_repo_vars, dirs, repo_trace>>

\* the tasks a worker thread is running
Running == {k \in DOMAIN tasks : tasks[k].pc \in {"check", "git"}}

\* ThreadPoolExecutor(max_workers=parallel_jobs), line 438: a free worker takes the
\* task that was submitted first and enters process_repo
WorkerStart(k) ==
    /\ repo.pc = "batch"
    /\ tasks[k].pc = "queued"
    /\ \A j \in 1..(k - 1) : tasks[j].pc # "queued"
    /\ Cardinality(Running) < repo_cfg.parallel_jobs
    /\ tasks' = [tasks EXCEPT ![k].pc = "check"]
    /\ UNCHANGED <<not_repo_vars, repo_cfg, dirs, repo, repo_trace, exit_code>>

\* lines 207-216: the task looks at its dest_dir; something that is not a repository
\* ends it
WorkerCheck(k) ==
    /\ repo.pc = "batch"
    /\ tasks[k].pc = "check"
    /\ LET seen == dirs[repo_cfg.repositories[k].dest_dir]
       IN  tasks' = [tasks EXCEPT ![k] =
                        IF seen = "nonrepo"
                        THEN [pc |-> "done", seen |-> seen, result |-> "false"]
                        ELSE [pc |-> "git", seen |-> seen, result |-> "none"]]
    /\ UNCHANGED <<not_repo_vars, repo_cfg, dirs, repo, repo_trace, exit_code>>

\* lines 209-210 and 217-223: sync_repo on what was seen as a repository, clone_repo
\* into what was seen as absent. A clone into a directory that another task has filled
\* in the meantime has no defined outcome: it may fail or succeed, and leave a
\* repository or a damaged directory.
WorkerGit(k) ==
    /\ repo.pc = "batch"
    /\ tasks[k].pc = "git"
    /\ LET dest_dir == repo_cfg.repositories[k].dest_dir
           seen == tasks[k].seen
           now == dirs[dest_dir]
       IN  IF seen = "repo"
           THEN \E git \in {"ok", "pull_error"} :
                   LET done == sync_repo(now, git, FALSE)
                   IN  /\ tasks' = [tasks EXCEPT ![k].pc = "done", ![k].result = done.result]
                       /\ dirs' = [dirs EXCEPT ![dest_dir] = done.dir]
           ELSE IF now = "absent"
           THEN \E git \in {"ok", "clone_error"} :
                   LET done == clone_repo(git)
                   IN  /\ tasks' = [tasks EXCEPT ![k].pc = "done", ![k].result = done.result]
                       /\ dirs' = [dirs EXCEPT ![dest_dir] = done.dir]
           ELSE \E result \in {"true", "false"}, left \in {"repo", "nonrepo"} :
                   /\ result = "true" => left = "repo"
                   /\ tasks' = [tasks EXCEPT ![k].pc = "done", ![k].result = result]
                   /\ dirs' = [dirs EXCEPT ![dest_dir] = left]
    /\ UNCHANGED <<not_repo_vars, repo_cfg, repo, repo_trace, exit_code>>

\* lines 444-456: as_completed hands over a finished task
WorkerCollect(k) ==
    /\ repo.pc = "batch"
    /\ tasks[k].pc = "done"
    /\ k \notin repo.collected
    /\ repo' = [record_result(repo, repo_cfg.repositories[k].name, tasks[k].result)
                    EXCEPT !.collected = @ \cup {k}]
    /\ UNCHANGED <<not_repo_vars, repo_cfg, dirs, tasks, repo_trace, exit_code>>

\* lines 480-524 with operation sync: no firmware directory is mirrored; the exit status
WorkersSummary ==
    /\ repo.pc = "batch"
    /\ repo.collected = DOMAIN tasks
    /\ repo' = [repo EXCEPT !.pc = "done"]
    /\ exit_code' = IF repo.failed > 0 THEN 1 ELSE 0
    /\ UNCHANGED <<not_repo_vars, repo_cfg, dirs, tasks, repo_trace>>

NextWorkers ==
    \/ FilterRequested
    \/ \E k \in DOMAIN tasks : WorkerStart(k)
    \/ \E k \in DOMAIN tasks : WorkerCheck(k)
    \/ \E k \in DOMAIN tasks : WorkerGit(k)
    \/ \E k \in DOMAIN tasks : WorkerCollect(k)
    \/ WorkersSummary

SpecWorkers == InitWorkers /\ [][NextWorkers]_vars

(***************************************************************************)
(* Claims about the repo tool (checked under SpecRepo).                    *)
(***************************************************************************)
\* K: the repositories whose process_repo call returned failure or raised
FailingOutcomes == Cardinality({k \in 1..N : tasks[k] \in {"false", "raise"}})
\* the firmware directory mirror, when it ran and failed
FirmwareMirrorFailures == IF repo.firmware \in {"mkdir_error", "rsync_error"} THEN 1 ELSE 0

\* C1 as stated: at the end failed = K, successful = N - K, and the exit status is 1
\* exactly if K > 0.
C1_AsStated ==
    repo.pc = "done" =>
        /\ repo.failed = FailingOutcomes
        /\ repo.successful = N - FailingOutcomes
        /\ exit_code = 1 <=> FailingOutcomes > 0

\* C1 (amended): in sequential and in parallel mode, in every completion order, when the
\* batch loop is over failed = K and successful = N - K; at the end failed = K + F, where
\* F is 1 if the firmware directory mirror ran and failed and 0 otherwise, successful is
\* still N - K, and the exit status is 1 exactly if K + F > 0 (0 otherwise).
C1_BatchCounters ==
    /\ (repo.pc = "batch" /\ repo.collected = 1..N) =>
        /\ repo.failed = FailingOutcomes
        /\ repo.successful = N - FailingOutcomes
    /\ repo.pc = "done" =>
        /\ repo.failed = FailingOutcomes + FirmwareMirrorFailures
        /\ repo.successful = N - FailingOutcomes
        /\ exit_code \in {0, 1}
        /\ exit_code = 1 <=> FailingOutcomes + FirmwareMirrorFailures > 0
        /\ Len(repo.results) = N

\* a parallel run of two repositories collected in the reverse order, one returning
\* failure or raising, with the firmware mirror failing after it
C1_Witness ==
    /\ repo.pc = "done"
    /\ repo_cfg.parallel_jobs > 1
    /\ N = 2
    /\ repo.results[1][1] = repo_cfg.repositories[2].name
    /\ tasks[1] = "raise"
    /\ tasks[2] = "true"
    /\ repo.firmware = "rsync_error"
    /\ repo.failed = 2

DisabledEntries ==
    {repo_cfg.configured[k] : k \in {j \in 1..Len(repo_cfg.configured) :
                                        ~ repo_cfg.configured[j].enabled}}
EnabledCount ==
    Cardinality({k \in 1..Len(repo_cfg.configured) : repo_cfg.configured[k].enabled})
ResultNames == {repo.results[j][1] : j \in 1..Len(repo.results)}
Filtered == repo.pc \notin {"idle", "filter"}

\* C11 as stated: at the end of a batch run every disabled repository has a result that
\* counts as successful.
C11_AsStated ==
    repo.pc = "done" =>
        \A r \in DisabledEntries :
            \E j \in 1..Len(repo.results) : repo.results[j] = <<r.name, TRUE>>

\* C11 (amended): in a batch run a disabled repository is dropped before the batch: no
\* git or rsync operation is invoked for it (its dest_dir stays as it was), it gets no
\* result and no message, and it is counted neither as successful nor as failed, so
\* successful + failed covers the enabled repositories only; when every repository is
\* disabled the run ends with status 0 and empty counters.
C11_DisabledDropped ==
    Filtered =>
        /\ \A r \in DisabledEntries :
            /\ r.name \notin ResultNames
            /\ \A k \in 1..N : repo_cfg.repositories[k].name # r.name
            /\ dirs[r.dest_dir] = repo_cfg.dirs_at_start[r.dest_dir]
        /\ N = EnabledCount
        /\ Len(repo.results) <= EnabledCount
        /\ repo.pc = "done" =>
            /\ repo.successful + repo.failed - FirmwareMirrorFailures = EnabledCount
            /\ EnabledCount = 0 =>
                (exit_code = 0 /\ repo.successful = 0 /\ repo.failed = 0
                 /\ repo_trace = NoRepoTrace)

\* a run with one enabled repository that succeeds next to two disabled ones
C11_Witness ==
    /\ repo.pc = "done"
    /\ Cardinality(DisabledEntries) = 2
    /\ EnabledCount = 1
    /\ repo.successful = 1
    /\ repo.failed = 0
    /\ Len(repo.results) = 1
    /\ exit_code = 0

\* the process_repo call that ran last, in a run that copies
Copying == Filtered /\ repo_trace.entry # 0 /\ repo_cfg.operation \in {"copy", "both"}
TracedEntry == repo_cfg.repositories[repo_trace.entry]
ConfiguredPaths == {TracedEntry.copy_files[k] : k \in 1..Len(TracedEntry.copy_files)}
MissingPaths == ConfiguredPaths \ repo_trace.present
CopiedPaths == {repo_trace.sources[k].path : k \in 1..Len(repo_trace.sources)}

\* C13 as stated: when rsync exits cleanly and at least one source exists, missing
\* sources do not make the entry a failure of the batch.
C13_AsStated ==
    (Copying /\ repo_trace.run = "clean" /\ repo_trace.sources # <<>>) =>
        (repo_trace.result = "true" /\ tasks[repo_trace.entry] = "true")

\* C13 (amended): missing sources do not stop the copy (rsync still runs with the sources
\* that exist), but when rsync exits cleanly the entry succeeds exactly if no configured
\* source is missing; with a missing source the entry is a failure of the batch. The
\* entry also fails, without rsync being run, when no valid source remains, and it fails
\* when rsync does not exit cleanly.
C13_MissingSourcesFail ==
    Copying =>
        /\ repo_trace.run = "clean" =>
            /\ repo_trace.result = "true" <=> MissingPaths = {}
            /\ tasks[repo_trace.entry] = repo_trace.result
            /\ repo_trace.result \in {"true", "false"}
            /\ repo_trace.sources # <<>>
            /\ TracedEntry.copy_files # <<>> =>
                   CopiedPaths = ConfiguredPaths \cap repo_trace.present
        /\ repo_trace.run = "error" => repo_trace.result = "false"
        /\ (repo_cfg.operation = "copy" /\ repo_trace.before # "absent"
            /\ TracedEntry.copy_files # <<>> /\ ConfiguredPaths \cap repo_trace.present = {}) =>
               (repo_trace.result = "false" /\ repo_trace.run = "not_run"
                /\ repo_trace.ops = <<>>)
        /\ (repo_trace.entry \in repo.collected /\ repo_trace.result = "false") =>
               \E j \in 1..Len(repo.results) : repo.results[j] = <<TracedEntry.name, FALSE>>

\* one of two configured sources is missing, rsync copies the other and exits cleanly,
\* and the run ends with the entry counted as failed
C13_Witness ==
    /\ Copying
    /\ repo.pc = "done"
    /\ N = 1
    /\ repo_trace.run = "clean"
    /\ Cardinality(MissingPaths) = 1
    /\ Len(repo_trace.sources) = 1
    /\ repo.failed = 1
    /\ repo.firmware \in {"ok", "skipped"}
    /\ exit_code = 1

SyncOperation == repo.pc \notin {"idle", "filter"} /\ repo_cfg.operation \in {"sync", "both"}

\* C2: with operation sync or both, a repository whose dest_dir exists and is not a git
\* repository ends in failure, no clone, fetch, checkout, pull or rsync is invoked for
\* it, and what is at dest_dir stays as it was.
C2_NonRepoFails ==
    SyncOperation =>
        /\ (repo_trace.entry # 0 /\ repo_trace.before = "nonrepo") =>
            /\ repo_trace.result = "false"
            /\ repo_trace.ops = <<>>
            /\ repo_trace.sources = <<>>
            /\ tasks[repo_trace.entry] = "false"
            /\ dirs[repo_cfg.repositories[repo_trace.entry].dest_dir] = "nonrepo"
        /\ \A k \in 1..N :
            (tasks[k] # "pending" /\ dirs[repo_cfg.repositories[k].dest_dir] = "nonrepo")
                => tasks[k] = "false"
        /\ \A k \in repo.collected :
            dirs[repo_cfg.repositories[k].dest_dir] = "nonrepo"
                => \E j \in 1..Len(repo.results) :
                       repo.results[j] = <<repo_cfg.repositories[k].name, FALSE>>

\* operation both, a destination that is a plain directory
C2_Witness ==
    /\ repo.pc = "done"
    /\ repo_cfg.operation = "both"
    /\ repo_trace.entry # 0
    /\ repo_trace.before = "nonrepo"
    /\ repo_trace.result = "false"
    /\ dirs[repo_cfg.repositories[repo_trace.entry].dest_dir] = "nonrepo"
    /\ exit_code = 1

\* the git steps of the process_repo call that ran last
GitSteps == SelectSeq(repo_trace.ops, LAMBDA op : op # "rsync")
Syncing == SyncOperation /\ repo_trace.entry # 0
PlannedSteps ==
    IF repo_trace.off_branch THEN <<"fetch", "checkout", "pull">> ELSE <<"fetch", "pull">>
\* the position in PlannedSteps of the step that git makes fail, 0 if none
FailingStep ==
    IF repo_trace.git = "fetch_error" THEN 1
    ELSE IF repo_trace.git = "checkout_error" /\ repo_trace.off_branch THEN 2
    ELSE IF repo_trace.git = "pull_error" THEN Len(PlannedSteps)
    ELSE 0

\* C15: with operation sync or both, an absent dest_dir is cloned and nothing else; a
\* repository is fetched, checked out only when on another branch, then pulled; the
\* first step that fails ends the git steps and the entry fails; an entry that succeeds
\* has run all its steps.
C15_SyncSteps ==
    Syncing =>
        /\ repo_trace.before = "absent" =>
            /\ GitSteps \in {<<>>, <<"clone">>}
            /\ GitSteps = <<>> <=> repo_trace.git = "mkdir_error"
            /\ repo_trace.git \in {"mkdir_error", "clone_error"} =>
                   (repo_trace.result # "true" /\ repo_trace.ops = GitSteps)
        /\ repo_trace.before = "repo" =>
            /\ GitSteps = IF FailingStep = 0 THEN PlannedSteps
                          ELSE SubSeq(PlannedSteps, 1, FailingStep)
            /\ FailingStep # 0 => (repo_trace.result = "false" /\ repo_trace.ops = GitSteps)
        /\ repo_trace.before = "nonrepo" => GitSteps = <<>>
        /\ repo_trace.result = "true" =>
            /\ GitSteps = IF repo_trace.before = "absent" THEN <<"clone">> ELSE PlannedSteps
            /\ dirs[TracedEntry.dest_dir] = "repo"
        /\ repo_trace.result # "true" => tasks[repo_trace.entry] # "true"

\* on another branch, the checkout fails after the fetch: no pull, no copy, failure
C15_Witness ==
    /\ Syncing
    /\ repo_cfg.operation = "both"
    /\ repo_trace.off_branch
    /\ repo_trace.ops = <<"fetch", "checkout">>
    /\ repo_trace.result = "false"
    /\ repo.pc = "done"
    /\ exit_code = 1

Succeeded == {k \in 1..N : tasks[k] = "true"}
Finished == {k \in 1..N : tasks[k] # "pending"}
ResultsOf(k) ==
    {j \in 1..Len(repo.results) : repo.results[j][1] = repo_cfg.repositories[k].name}

RsyncCalls == Len(SelectSeq(repo_trace.ops, LAMBDA op : op = "rsync"))
GitFailed ==
    /\ repo_cfg.operation = "both"
    /\ \/ repo_trace.before = "nonrepo"
       \/ repo_trace.before = "repo" /\ FailingStep # 0
       \/ repo_trace.before = "absent" /\ repo_trace.git \in {"mkdir_error", "clone_error"}
ExistingPaths ==
    IF TracedEntry.copy_files = <<>> THEN {"./"} ELSE ConfiguredPaths \cap repo_trace.present
CopyWithoutRepository == repo_cfg.operation = "copy" /\ repo_trace.before = "absent"

\* C20: with operation copy or both, rsync is run at most once for an entry, and the one
\* run is given every configured source that exists, each once (the repository's
\* contents, with a trailing slash, when no copy_files is configured); rsync is not run
\* when the git step failed, when no configured source exists, or when the operation is
\* copy and dest_dir does not exist. Otherwise, with a copy destination and unless making
\* the destination directory raises, it is run.
C20_SingleRsync ==
    Copying =>
        /\ RsyncCalls <= 1
        /\ RsyncCalls = 1 =>
            /\ CopiedPaths = ExistingPaths
            /\ Len(repo_trace.sources) = Cardinality(ExistingPaths)
            /\ \A k \in 1..Len(repo_trace.sources) :
                /\ repo_trace.sources[k].repo_path = TracedEntry.dest_dir
                /\ repo_trace.sources[k].slash = (TracedEntry.copy_files = <<>>)
            /\ repo_trace.run \in {"clean", "error"}
            /\ repo_trace.ops[Len(repo_trace.ops)] = "rsync"
        /\ (GitFailed \/ ExistingPaths = {} \/ CopyWithoutRepository) =>
            /\ RsyncCalls = 0
            /\ repo_trace.run = "not_run"
            /\ repo_trace.result # "true"
        /\ RsyncCalls = 0 =>
            \/ GitFailed
            \/ ExistingPaths = {}
            \/ CopyWithoutRepository
            \/ repo_cfg.copy_base_dir = "none"
            \/ repo_trace.result = "raise"

\* operation both on an absent dest_dir: the clone succeeds and one rsync run is given
\* both configured sources
C20_Witness ==
    /\ Copying
    /\ repo_cfg.operation = "both"
    /\ repo_trace.before = "absent"
    /\ repo_trace.ops = <<"clone", "rsync">>
    /\ Len(repo_trace.sources) = 2
    /\ repo_trace.result = "true"
    /\ tasks[repo_trace.entry] = "true"

(***************************************************************************)
(* Claims about the parallel workers (checked under SpecWorkers).          *)
(***************************************************************************)
DestOf(k) == repo_cfg.repositories[k].dest_dir
SharedDest == {pair \in (DOMAIN tasks) \X (DOMAIN tasks) :
                  pair[1] < pair[2] /\ DestOf(pair[1]) = DestOf(pair[2])}

\* C23 as stated: in parallel mode, whatever the configuration and the requested names
\* that filter_repositories accepts, no two tasks are at work on the same dest_dir at
\* the same time.
C23_AsStated ==
    repo.pc = "batch" =>
        \A j \in Running, k \in Running : j # k => DestOf(j) # DestOf(k)

\* what the code gives instead: two tasks share a dest_dir exactly when two selected
\* entries do, which a name requested twice or two configured entries with one dest_dir
\* bring about; nothing keeps such tasks apart
SharedDestFromInput ==
    repo.pc \in {"batch", "done"} =>
        \A pair \in SharedDest :
            \/ \E i \in DOMAIN repo_cfg.requested_names, j \in DOMAIN repo_cfg.requested_names :
                  i # j /\ repo_cfg.requested_names[i] = repo_cfg.requested_names[j]
            \/ \E i \in DOMAIN repo_cfg.configured, j \in DOMAIN repo_cfg.configured :
                  i # j /\ repo_cfg.configured[i].dest_dir = repo_cfg.configured[j].dest_dir

(***************************************************************************)
(* Claims about the firmware tool (checked under SpecFw).                  *)
(***************************************************************************)
RanDownloadFirmware == trace.handler = "download_firmware"
RanGithub == trace.handler = "download_github_release_assets"
AttemptsOf(h) == IF trace.handler = h THEN {trace.attempts[k] : k \in 1..Len(trace.attempts)} ELSE {}
AllAttempts == {trace.attempts[k] : k \in 1..Len(trace.attempts)}
OverwriteOff == fw_cfg.kind # "none" /\ ~ fw_cfg.settings.overwrite_existing

\* C3 as stated: whenever the target of a resolved version exists and overwrite is off,
\* download_single_version reports success, requests nothing and leaves the file alone.
C3_AsStated ==
    \A a \in AttemptsOf("download_firmware") :
        (a.before # "absent" /\ ~ fw_cfg.settings.overwrite_existing) =>
            (a.reported /\ ~ a.requested /\ a.after = a.before)

\* C3 (amended): the same for every resolved version that names a download file; a
\* version without one is reported as failed (nothing is requested, the file is left
\* alone).
C3_SkipExisting ==
    \A a \in AttemptsOf("download_firmware") :
        (a.before # "absent" /\ ~ fw_cfg.settings.overwrite_existing) =>
            /\ ~ a.requested
            /\ a.after = a.before
            /\ FileAt(files, a.target) = a.before
            /\ a.reported <=> a.source # <<>>

\* an existing file is skipped
C3_Witness ==
    \E a \in AttemptsOf("download_firmware") :
        /\ a.before = "old"
        /\ ~ fw_cfg.settings.overwrite_existing
        /\ a.source # <<>>
        /\ a.reported
        /\ FileAt(files, a.target) = "old"

FailedTransfers == {"request_error", "stream_error", "write_error"}

\* C4: an attempt that fails at the request, mid-stream or while writing leaves no file
\* at the target and is reported as failed; after an attempt there is a file at the
\* target only if it was skipped as present or written completely (and then it is
\* complete); nothing partial is ever left behind.
C4_NoPartialFile ==
    /\ \A a \in AllAttempts :
        /\ a.outcome \in FailedTransfers =>
               (a.after = "absent" /\ ~ a.reported /\ ~ Exists(files, a.target))
        /\ (a.outcome \notin {"no_file", "no_url"} /\ a.after # "absent") =>
               \/ a.outcome = "skipped" /\ a.after = a.before /\ a.reported
               \/ a.outcome = "ok" /\ a.after = "complete" /\ a.reported
    /\ \A q \in DOMAIN files : files[q] # "partial"

\* a transfer that broke mid-stream, both for a catalog firmware and for a release asset
C4_Witness ==
    /\ \E a \in AllAttempts : a.outcome = "stream_error" /\ a.after = "absent" /\ a.requested
    /\ RanGithub
    /\ fw.m5_failed # <<>>

\* C5 as stated, for the firmware batch: an exception raised while one entry is
\* processed becomes a failure of that entry and the batch goes on.
C5_AsStated ==
    (RanDownloadFirmware /\ trace.result = "raise") =>
        /\ fw.pc = "m5"
        /\ fw.i = trace.entry + 1
        /\ fw.m5_failed # <<>>
        /\ fw.m5_failed[Len(fw.m5_failed)] = trace.entry
        /\ exit_code = "running"

\* C6: once both batches have run, the exit status is 1 exactly if an entry was
\* recorded as failed, and successes and failures add up to the entries processed.
C6_ExitAndTotals ==
    fw.pc = "done" =>
        LET failed == Len(fw.m5_failed) + Len(fw.github_failed)
            succeeded == Len(fw.m5_successful) + Len(fw.github_successful)
            processed ==
                (IF fw_cfg.args.github_only THEN 0 ELSE Len(fw_cfg.firmware_configs))
                + (IF fw_cfg.args.skip_github THEN 0 ELSE Len(fw_cfg.github_releases))
        IN  /\ exit_code \in {0, 1}
            /\ exit_code = 1 <=> failed > 0
            /\ succeeded + failed = processed

\* a run with a failed release and no failed firmware
C6_Witness ==
    /\ fw.pc = "done"
    /\ exit_code = 1
    /\ fw.m5_failed = <<>>
    /\ fw.m5_successful # <<>>
    /\ fw.github_failed # <<>>
    /\ fw.github_successful # <<>>

\* C22 as stated: with overwrite on, an attempt that fails at the request or mid-stream
\* leaves a file that was at the target before it as it was (and an attempt that
\* succeeds replaces it by the complete download).
C22_AsStated ==
    \A a \in AllAttempts :
        (fw_cfg.settings.overwrite_existing /\ a.before # "absent" /\ a.requested) =>
            a.after = IF a.outcome \in FailedTransfers THEN a.before ELSE "complete"

\* what the code does instead: with overwrite on, every failed attempt, the one that
\* fails at the request included, removes the file that was at the target
OverwriteFailureRemovesFile ==
    \A a \in AllAttempts :
        (fw_cfg.settings.overwrite_existing /\ a.before # "absent"
         /\ a.outcome \in FailedTransfers) =>
            (a.requested /\ a.after = "absent" /\ ~ Exists(files, a.target) /\ ~ a.reported)

CatalogOperations == {"list_devices", "list_firmware", "download_firmware"}
CatalogCallMade == trace.handler \in CatalogOperations
FetchFailed == CatalogCallMade /\ trace.result = "exit"
CatalogRequestedOnce ==
    fw.pc # "idle" =>
        /\ fw.catalog_requests <= 1
        /\ firmware_data # None => fw.catalog_requests = 1
        /\ CatalogCallMade =>
            /\ fw.catalog_requests = 1
            /\ trace.calls = IF trace.entry > 1 THEN <<>> ELSE <<"catalog">>
            /\ trace.entry > 1 => (firmware_data = Str(Catalog) /\ trace.result # "exit")
        /\ FetchFailed =>
            /\ fw.pc = "exited"
            /\ exit_code = 1
            /\ firmware_data = None
        /\ fw.pc = "exited" => FetchFailed

\* C21: in one run of main the catalog is requested at most once. The first catalog
\* operation (list_devices, list_firmware or the first download_firmware) makes the
\* request; every later download_firmware gets the memoized catalog and makes no
\* request; a failed fetch ends the process with status 1, and nothing runs after it.
C21_FetchOnce == [] CatalogRequestedOnce /\ [][fw.pc # "exited"]_fw_vars

\* the second download_firmware of a run gets the catalog that the first one fetched
C21_Witness ==
    /\ trace.handler = "download_firmware"
    /\ trace.entry = 2
    /\ trace.calls = <<>>
    /\ trace.result = "true"
    /\ fw.catalog_requests = 1
    /\ firmware_data = Str(Catalog)

(***************************************************************************)
(* Claims about the pure functions (checked under SpecPure).               *)
(***************************************************************************)
Markers == {S_beta, S_alpha, S_rc, S_dev}
MarkerFree(label) == ~ \E m \in Markers : IsSubstr(m, Lower(label))
SaysStable(label) == IsSubstr(S_stable, Lower(label))
Least(S) == CHOOSE i \in S : \A j \in S : i <= j

ResolvedStable ==
    /\ call.fn = "resolve_version"
    /\ call.requested_version = S_stable
    /\ ret # Pending

\* C7 as stated: when some label is free of the four markers, 'stable' resolves to a
\* version whose label is free of them; otherwise to the first version.
C7_AsStated ==
    (ResolvedStable /\ call.firmware.versions # <<>>) =>
        LET versions == call.firmware.versions
        IN  IF \E i \in 1..Len(versions) : MarkerFree(versions[i].version)
            THEN ret.kind = "one" /\ MarkerFree(ret.v.version)
            ELSE ret = One(versions[1])

\* C7 (amended): on a non-empty version list 'stable' resolves to the first version,
\* in catalog order, whose lower-cased label contains 'stable' or none of the four
\* markers, and to the first version when no label qualifies.
C7_StableResolution ==
    (ResolvedStable /\ call.firmware.versions # <<>>) =>
        LET versions == call.firmware.versions
            ok == {i \in 1..Len(versions) :
                       SaysStable(versions[i].version) \/ MarkerFree(versions[i].version)}
        IN  ret = One(versions[IF ok = {} THEN 1 ELSE Least(ok)])

\* a label with 'stable' and a marker is returned ahead of a marker-free one
C7_Witness ==
    /\ ResolvedStable
    /\ ret.kind = "one"
    /\ ~ MarkerFree(ret.v.version)
    /\ \E i \in 1..Len(call.firmware.versions) : MarkerFree(call.firmware.versions[i].version)

Resolved == call.fn = "resolve_version" /\ ret # Pending

FirstContaining(versions, sel) ==
    LET hit == {i \in 1..Len(versions) : IsSubstr(sel, versions[i].version)}
    IN  IF hit = {} THEN None ELSE One(versions[Least(hit)])

\* C8 as stated: for every entry, the empty one included, 'latest' gives the first
\* element, 'all' the list itself, and any other selector the first label containing it.
C8_AsStated ==
    Resolved =>
        LET versions == call.firmware.versions
            sel == call.requested_version
        IN  /\ (sel = S_latest /\ versions # <<>>) => ret = One(versions[1])
            /\ sel = S_all => (ret.kind = "list" /\ ret.vs = versions /\ Len(ret.vs) = Len(versions))
            /\ sel \notin {S_latest, S_all} => ret = FirstContaining(versions, sel)

\* C8 (amended): an empty version list resolves to not-found for every selector; on a
\* non-empty list 'latest' gives the first element, 'all' the list itself, and a
\* selector other than 'latest', 'stable' and 'all' the first label containing it.
C8_SelectorResolution ==
    Resolved =>
        LET versions == call.firmware.versions
            sel == call.requested_version
        IN  IF versions = <<>> THEN ret = None
            ELSE /\ sel = S_latest => ret = One(versions[1])
                 /\ sel = S_all => (ret.kind = "list" /\ ret.vs = versions /\ Len(ret.vs) = Len(versions))
                 /\ sel \notin {S_latest, S_stable, S_all} => ret = FirstContaining(versions, sel)

\* a specific selector found in the second label only
C8_Witness ==
    /\ Resolved
    /\ call.requested_version \notin {S_latest, S_stable, S_all}
    /\ Len(call.firmware.versions) >= 2
    /\ ret = One(call.firmware.versions[2])
    /\ ret # One(call.firmware.versions[1])

Cleaned == call.fn = "clean_filename" /\ ret # Pending
Chars(s) == {s[i] : i \in 1..Len(s)}
NameClass == WordChars \cup {"-", "_"}
VersionClass == WordChars \cup {"-", "_", "."}

SpacesToUnderscores(x) == [i \in 1..Len(x) |-> IF x[i] = " " THEN "_" ELSE x[i]]
CleanPart(x) == SelectSeq(SpacesToUnderscores(x), LAMBDA c : c \in NameClass)
WithoutLeadingV(v) == IF v # <<>> /\ v[1] \in {"v", "V"} THEN Tail(v) ELSE v

\* C17 as stated: the filename is {device}_{name}_{version}.bin with device and name
\* cleaned (spaces to underscores, then only word characters, '-' and '_' kept) and the
\* version without a leading 'v' or 'V', every other 'v'/'V' kept, then only word
\* characters, '.', '-' and '_' kept.
C17_AsStated ==
    (Cleaned /\ ~ call.again) =>
        ret.filename =
            CleanPart(call.device) \o <<"_">> \o CleanPart(call.name) \o <<"_">>
            \o SelectSeq(WithoutLeadingV(call.version), LAMBDA c : c \in VersionClass)
            \o S_bin

\* what does hold: the same composition with every 'v' and 'V' of the version removed
FilenameWithoutAnyV ==
    (Cleaned /\ ~ call.again) =>
        ret.filename =
            CleanPart(call.device) \o <<"_">> \o CleanPart(call.name) \o <<"_">>
            \o SelectSeq(call.version, LAMBDA c : c \in VersionClass \ {"v", "V"})
            \o S_bin

(***************************************************************************)
(* Claims about download_firmware and find_firmware_by_name (SpecPure).    *)
(***************************************************************************)
DownloadFirmwareDone == call.fn = "download_firmware" /\ ret # Pending
\* the catalog entries of the requested device, and the one the request is matched to
EntriesOfDevice(device) ==
    {k \in 1..Len(PureCatalog) : Lower(PureCatalog[k].category) = Lower(device)}
NameMatches(k, name) ==
    \/ IsSubstr(Lower(name), Lower(PureCatalog[k].name))
    \/ IsSubstr(Lower(PureCatalog[k].name), Lower(name))
MatchingEntries(device, name) == {k \in EntriesOfDevice(device) : NameMatches(k, name)}
RequestedEntry ==
    PureCatalog[Least(MatchingEntries(call.firmware_config.device, call.firmware_config.name))]
FanOut ==
    /\ DownloadFirmwareDone
    /\ call.firmware_config.version = S_all
    /\ MatchingEntries(call.firmware_config.device, call.firmware_config.name) # {}
    /\ RequestedEntry.versions # <<>>

\* C12 as stated: 'all' on a catalog entry with N versions ends with N per-version
\* outcomes, one per catalog version in catalog order, whatever happens to one of them.
C12_AsStated ==
    FanOut =>
        /\ ret.result \in {"true", "false"}
        /\ Len(ret.attempts) = Len(RequestedEntry.versions)
        /\ \A k \in 1..Len(ret.attempts) :
            ret.attempts[k].target =
                <<call.firmware_config.device_key,
                  clean_filename(RequestedEntry.name, RequestedEntry.versions[k].version,
                                 call.firmware_config.device)>>

\* what does hold: the fan-out is complete, in catalog order, unless the call is left by
\* an exception, and then no version after the raising one is attempted
FanOutCompleteUnlessRaise ==
    FanOut =>
        \/ ret.result = "raise" /\ Len(ret.attempts) < Len(RequestedEntry.versions)
                                /\ call.firmware_config.device_key \in BlockedDirs
        \/ /\ ret.result \in {"true", "false"}
           /\ Len(ret.attempts) = Len(RequestedEntry.versions)
           /\ ret.result = "true" <=> \E k \in 1..Len(ret.attempts) : ret.attempts[k].reported
           /\ \A k \in 1..Len(ret.attempts) :
               /\ ret.attempts[k].source = RequestedEntry.versions[k].file
               /\ ret.attempts[k].target[2] =
                     clean_filename(RequestedEntry.name, RequestedEntry.versions[k].version,
                                    call.firmware_config.device)
               /\ ret.attempts[k].target[1] = call.firmware_config.device_key
               /\ ret.attempts[k].outcome =
                     IF RequestedEntry.versions[k].file = <<>> THEN "no_file"
                     ELSE IF ret.attempts[k].before # "absent" /\ ~ call.overwrite_existing
                          THEN "skipped"
                     ELSE call.outcomes[k]

\* the selector of the request finds nothing in the versions of the matched entry
SelectorFindsNothing ==
    /\ MatchingEntries(call.firmware_config.device, call.firmware_config.name) # {}
    /\ \/ RequestedEntry.versions = <<>>
       \/ /\ call.firmware_config.version \notin {S_latest, S_stable, S_all}
          /\ \A k \in 1..Len(RequestedEntry.versions) :
                 ~ IsSubstr(call.firmware_config.version, RequestedEntry.versions[k].version)
NothingRequested ==
    \/ MatchingEntries(call.firmware_config.device, call.firmware_config.name) = {}
    \/ SelectorFindsNothing

\* C16: when no catalog entry matches the requested device and name, or the selector
\* finds no version, download_firmware reports failure, attempts no download, and
\* changes nothing under the output directory (the device directory is not even made,
\* so a directory that cannot be created makes no difference).
C16_NotFoundFails ==
    (DownloadFirmwareDone /\ NothingRequested) =>
        /\ ret.result = "false"
        /\ ret.attempts = <<>>
        /\ ret.files = call.files

\* a selector that no version carries, for a device directory that cannot be created,
\* with files of an earlier run around
C16_Witness ==
    /\ DownloadFirmwareDone
    /\ SelectorFindsNothing
    /\ RequestedEntry.versions # <<>>
    /\ call.firmware_config.device_key \in BlockedDirs
    /\ call.files # <<>>
    /\ ret.result = "false"

FindDone == call.fn = "find_firmware_by_name" /\ ret # Pending

\* C18: find_firmware_by_name returns the first catalog entry, in catalog order, whose
\* category equals the device and whose name contains the requested name or is contained
\* in it, all case-insensitively; it returns not-found exactly if there is no such
\* entry, and never an entry of another category.
C18_FirstMatch ==
    FindDone =>
        /\ ret = None <=> MatchingEntries(call.device, call.name) = {}
        /\ ret # None =>
            /\ ret = One(PureCatalog[Least(MatchingEntries(call.device, call.name))])
            /\ Lower(ret.v.category) = Lower(call.device)

\* the request is longer than the catalog name and differs in case; an entry of another
\* category with a matching name comes later in the catalog
C18_Witness ==
    /\ FindDone
    /\ call.name = <<"x", "B", "R", "x">>
    /\ call.device = <<"C", "a", "r", "d">>
    /\ ret # None
    /\ ret.v.name = <<"B", "r">>
    /\ ret.v.category = <<"C", "A", "R", "D">>
    /\ \E k \in 1..Len(PureCatalog) :
           k \notin EntriesOfDevice(call.device) /\ NameMatches(k, call.name)

GithubDone == call.fn = "download_github_release_assets" /\ ret # Pending
MetadataFetched ==
    /\ GithubDone
    /\ ret.calls # <<>>
    /\ call.release.kind = "release"
\* the positions in the asset list of the assets whose name matches the pattern
MatchingPositions ==
    {k \in 1..Len(call.release.assets) :
        fnmatch(call.release.assets[k].name, call.github_config.file_pattern)}
AttemptedNames == [k \in 1..Len(ret.attempts) |-> ret.attempts[k].target[2]]
MatchingAssets ==
    [k \in 1..Cardinality(MatchingPositions) |->
        call.release.assets[CHOOSE i \in MatchingPositions :
                                Cardinality({j \in MatchingPositions : j < i}) = k - 1]]
MatchingNames == [k \in 1..Len(MatchingAssets) |-> MatchingAssets[k].name]

SlashCount(s) == Cardinality({i \in 1..Len(s) : s[i] = "/"})
ReleasesPage(owner, project) ==
    S_https_github \o <<"/">> \o owner \o <<"/">> \o project \o <<"/">> \o S_releases
OwnerRepoNames == UrlSegments \ {<<>>}

\* C10: a releases page URL, with or without a trailing slash, maps to the
\* latest-release endpoint of its owner and repository; a URL without the host marker
\* or with fewer than 5 segments maps to nothing; and when a URL maps to nothing the
\* handler fails without requesting anything.
C10_UrlToEndpoint ==
    /\ (call.fn = "parse_github_releases_url" /\ ret # Pending) =>
        /\ \A owner \in OwnerRepoNames, project \in OwnerRepoNames :
               call.releases_url \in {ReleasesPage(owner, project), ReleasesPage(owner, project) \o <<"/">>}
                   => ret = Str(S_api_repos \o owner \o <<"/">> \o project \o S_releases_latest)
        /\ ~ IsSubstr(S_github_com, call.releases_url) => ret = None
        /\ SlashCount(call.releases_url) + 1 < 5 => ret = None
    /\ (call.fn = "download_github_release_assets" /\ ret # Pending) =>
        (parse_github_releases_url(call.github_config.releases_url) = None =>
            (ret.result = "false" /\ ret.calls = <<>> /\ ret.attempts = <<>>))

\* a URL on github.com that is too short is rejected although the release has assets
C10_Witness ==
    /\ call.fn = "download_github_release_assets"
    /\ ret # Pending
    /\ IsSubstr(S_github_com, call.github_config.releases_url)
    /\ parse_github_releases_url(call.github_config.releases_url) = None
    /\ call.release.kind = "release"
    /\ call.release.assets # <<>>
    /\ ret.result = "false"

====
